---------------------------- MODULE Spec2Model ----------------------------
(***************************************************************************)
(* Model of the market-brief server: the two fixed-window rate limiters    *)
(* (news route, analysis route), the two-level sentiment cache with the    *)
(* quota-aware bulk analyzer, its periodic sweep and its usage counters    *)
(* (lib/gemini.ts), the GET handler of the news route with its response    *)
(* cache, the GET handler of the gemini-usage route, and the               *)
(* ServerDataService with its update flag, its timers and the admin API.   *)
(*                                                                         *)
(* Time is Date.now() in milliseconds; the program constants keep their    *)
(* source values and the clock advances by steps chosen from small sets.   *)
(* Strings are sequences of UTF-16 code units.                             *)
(***************************************************************************)
EXTENDS Integers, Sequences, FiniteSets, TLC

VARIABLES
    clock,                  \* Date.now()
    ticks,                  \* number of clock advances so far (bounded)
    requestCounts,          \* news route: Map<ip, {count, resetTime}>
    analysisRequestCounts,  \* analysis route: Map<"analysis_"+ip, {count, resetTime}>
    rlRoute,                \* the route whose limiter this behaviour exercises
    rlLast,                 \* the last limiter check: its input, its result, the record before
    rlWindow,               \* history: per limiter and key, the checks made in the current window
    disableGemini,          \* gemini.ts: LOCAL_TESTING_DISABLE_GEMINI (a build-time switch)
    apiKey,                 \* gemini.ts: whether process.env.GOOGLE_AI_API_KEY is set
    usageStats,             \* gemini.ts: the usage counters
    sentimentCache,         \* gemini.ts: Map<contentKey, {timestamp, data}>
    individualArticleCache, \* gemini.ts: Map<articleKey, {timestamp, sentiment}>
                            \* (both with the history field writtenAt: when it was set)
    calls,                  \* the analyzeBulkSentiment invocations awaiting the model: their locals
    callsMade,              \* history: number of analyzeBulkSentiment invocations made
    returned,               \* history: the invocation that returned last, with what it returned
    modelInvocations,       \* history: number of model.generateContent calls made
    cachedData,             \* news route: the cached response data, or null
    lastSentimentUpdate,    \* news route: the `now` of the last request that analysed sentiment
    newsRequests,           \* the news requests awaiting the fetch or the analysis: their locals
    lastResponse,           \* history: the response the news route sent last
    usageResponse,          \* history: the response the gemini-usage route sent last
    pureArgs,               \* the arguments of a call of a pure function under study
    pureResult,             \* what that call returned
    rlChecks,               \* history: per instant, the limiter checks made and allowed for one key
    unswept,                \* history: the two sentiment caches as they were without any sweep
    analysedAt,             \* history: the times at which the news route called analyzeBulkSentiment
    isUpdating,             \* ServerDataService.isUpdating
    updateIntervals,        \* ServerDataService.updateIntervals: the handles of the running timers
    cacheFile,              \* the snapshot that getCachedData() reads from data/cache.json
    updates,                \* the updateStocks/updateNews calls made, each with its position
    updateAllCalls          \* the updateAll calls made, each with its two updates

rlVars == <<requestCounts, analysisRequestCounts, rlRoute, rlLast, rlWindow>>

timeVars == <<clock, ticks>>

geminiVars == <<disableGemini, apiKey, usageStats, sentimentCache, individualArticleCache,
                calls, callsMade, returned, modelInvocations>>

newsVars == <<cachedData, lastSentimentUpdate, newsRequests, lastResponse>>

usageVars == <<usageResponse>>

pureVars == <<pureArgs, pureResult>>

burstVars == <<rlChecks>>

sweepVars == <<unswept>>

analysisVars == <<analysedAt>>

serviceVars == <<isUpdating, updateIntervals, cacheFile, updates, updateAllCalls>>

-----------------------------------------------------------------------------
(* Bounds *)

\* number of clock advances in one behaviour
MaxTicks == 2
\* checks observed in one window beyond the limiter's maximum
MaxExtraChecks == 1
\* articles in one batch
MaxBatch == 2
\* analyzeBulkSentiment invocations in one behaviour
MaxCalls == 2
\* news requests awaiting at once
MaxInFlight == 2
\* articles in one list given to calculateOverallSentiment
MaxArticles == 3
\* (title, summary) pairs in one list given to generateContentHash alone
MaxPairs == 3
\* characters in a title of such a pair
MaxTitle == 2
\* updateStocks and updateNews calls in one behaviour
MaxUpdates == 4
\* startPeriodicUpdates calls in one behaviour
MaxStarts == 2

-----------------------------------------------------------------------------
(* Rate limiters *)

IPs == {"ip1", "ip2"}

RATE_LIMIT_WINDOW == 10 * 60 * 1000
RATE_LIMIT_MAX_REQUESTS == 20
ANALYSIS_RATE_LIMIT_WINDOW == 5 * 60 * 1000
ANALYSIS_RATE_LIMIT_MAX_REQUESTS == 10

\* const key = `analysis_${ip}`
AnalysisKey(ip) == <<"analysis_", ip>>

\* Map.set(key, value)
MapSet(m, key, value) == [k \in DOMAIN m \cup {key} |-> IF k = key THEN value ELSE m[k]]

\* checkRateLimit with a window that already ends at its reset time (now >= resetTime)
checkRateLimitEarlyReset(counts, ip, now) ==
    LET key == ip IN
    IF key \notin DOMAIN counts \/ now >= counts[key].resetTime
    THEN [counts |-> MapSet(counts, key, [count |-> 1, resetTime |-> now + RATE_LIMIT_WINDOW]),
          result |-> [allowed |-> TRUE, remaining |-> RATE_LIMIT_MAX_REQUESTS - 1,
                      resetTime |-> now + RATE_LIMIT_WINDOW]]
    ELSE LET record == counts[key] IN
         IF record.count >= RATE_LIMIT_MAX_REQUESTS
         THEN [counts |-> counts,
               result |-> [allowed |-> FALSE, remaining |-> 0, resetTime |-> record.resetTime]]
         ELSE [counts |-> MapSet(counts, key, [record EXCEPT !.count = @ + 1]),
               result |-> [allowed |-> TRUE,
                           remaining |-> RATE_LIMIT_MAX_REQUESTS - (record.count + 1),
                           resetTime |-> record.resetTime]]

\* checkRateLimit that counts the rejected check too
checkRateLimitCountsRejected(counts, ip, now) ==
    LET key == ip IN
    IF key \notin DOMAIN counts \/ now > counts[key].resetTime
    THEN [counts |-> MapSet(counts, key, [count |-> 1, resetTime |-> now + RATE_LIMIT_WINDOW]),
          result |-> [allowed |-> TRUE, remaining |-> RATE_LIMIT_MAX_REQUESTS - 1,
                      resetTime |-> now + RATE_LIMIT_WINDOW]]
    ELSE LET record == counts[key] IN
         [counts |-> MapSet(counts, key, [record EXCEPT !.count = @ + 1]),
          result |-> [allowed |-> record.count < RATE_LIMIT_MAX_REQUESTS,
                      remaining |-> IF record.count < RATE_LIMIT_MAX_REQUESTS
                                    THEN RATE_LIMIT_MAX_REQUESTS - (record.count + 1) ELSE 0,
                      resetTime |-> record.resetTime]]

\* checkRateLimit(ip) at time now: the map afterwards and the returned object
checkRateLimit(counts, ip, now) ==
    LET key == ip IN
    IF key \notin DOMAIN counts
    THEN [counts |-> MapSet(counts, key, [count |-> 1, resetTime |-> now + RATE_LIMIT_WINDOW]),
          result |-> [allowed |-> TRUE, remaining |-> RATE_LIMIT_MAX_REQUESTS - 1,
                      resetTime |-> now + RATE_LIMIT_WINDOW]]
    ELSE LET record == counts[key] IN
         IF now > record.resetTime
         THEN [counts |-> MapSet(counts, key, [count |-> 1, resetTime |-> now + RATE_LIMIT_WINDOW]),
               result |-> [allowed |-> TRUE, remaining |-> RATE_LIMIT_MAX_REQUESTS - 1,
                           resetTime |-> now + RATE_LIMIT_WINDOW]]
         ELSE IF record.count >= RATE_LIMIT_MAX_REQUESTS
         THEN [counts |-> counts,
               result |-> [allowed |-> FALSE, remaining |-> 0, resetTime |-> record.resetTime]]
         ELSE [counts |-> MapSet(counts, key, [record EXCEPT !.count = @ + 1]),
               result |-> [allowed |-> TRUE,
                           remaining |-> RATE_LIMIT_MAX_REQUESTS - (record.count + 1),
                           resetTime |-> record.resetTime]]

\* checkAnalysisRateLimit that rejects only above the maximum (count > max)
checkAnalysisRateLimitOffByOne(counts, ip, now) ==
    LET key == AnalysisKey(ip) IN
    IF key \notin DOMAIN counts \/ now > counts[key].resetTime
    THEN [counts |-> MapSet(counts, key, [count |-> 1, resetTime |-> now + ANALYSIS_RATE_LIMIT_WINDOW]),
          result |-> [allowed |-> TRUE, remaining |-> ANALYSIS_RATE_LIMIT_MAX_REQUESTS - 1,
                      resetTime |-> now + ANALYSIS_RATE_LIMIT_WINDOW]]
    ELSE LET record == counts[key] IN
         IF record.count > ANALYSIS_RATE_LIMIT_MAX_REQUESTS
         THEN [counts |-> counts,
               result |-> [allowed |-> FALSE, remaining |-> 0, resetTime |-> record.resetTime]]
         ELSE [counts |-> MapSet(counts, key, [record EXCEPT !.count = @ + 1]),
               result |-> [allowed |-> TRUE,
                           remaining |-> ANALYSIS_RATE_LIMIT_MAX_REQUESTS - (record.count + 1),
                           resetTime |-> record.resetTime]]

\* checkAnalysisRateLimit with a window that already ends at its reset time
checkAnalysisRateLimitEarlyReset(counts, ip, now) ==
    LET key == AnalysisKey(ip) IN
    IF key \notin DOMAIN counts \/ now >= counts[key].resetTime
    THEN [counts |-> MapSet(counts, key, [count |-> 1, resetTime |-> now + ANALYSIS_RATE_LIMIT_WINDOW]),
          result |-> [allowed |-> TRUE, remaining |-> ANALYSIS_RATE_LIMIT_MAX_REQUESTS - 1,
                      resetTime |-> now + ANALYSIS_RATE_LIMIT_WINDOW]]
    ELSE LET record == counts[key] IN
         IF record.count >= ANALYSIS_RATE_LIMIT_MAX_REQUESTS
         THEN [counts |-> counts,
               result |-> [allowed |-> FALSE, remaining |-> 0, resetTime |-> record.resetTime]]
         ELSE [counts |-> MapSet(counts, key, [record EXCEPT !.count = @ + 1]),
               result |-> [allowed |-> TRUE,
                           remaining |-> ANALYSIS_RATE_LIMIT_MAX_REQUESTS - (record.count + 1),
                           resetTime |-> record.resetTime]]

\* checkAnalysisRateLimit(ip) at time now
checkAnalysisRateLimit(counts, ip, now) ==
    LET key == AnalysisKey(ip) IN
    IF key \notin DOMAIN counts
    THEN [counts |-> MapSet(counts, key, [count |-> 1, resetTime |-> now + ANALYSIS_RATE_LIMIT_WINDOW]),
          result |-> [allowed |-> TRUE, remaining |-> ANALYSIS_RATE_LIMIT_MAX_REQUESTS - 1,
                      resetTime |-> now + ANALYSIS_RATE_LIMIT_WINDOW]]
    ELSE LET record == counts[key] IN
         IF now > record.resetTime
         THEN [counts |-> MapSet(counts, key, [count |-> 1, resetTime |-> now + ANALYSIS_RATE_LIMIT_WINDOW]),
               result |-> [allowed |-> TRUE, remaining |-> ANALYSIS_RATE_LIMIT_MAX_REQUESTS - 1,
                           resetTime |-> now + ANALYSIS_RATE_LIMIT_WINDOW]]
         ELSE IF record.count >= ANALYSIS_RATE_LIMIT_MAX_REQUESTS
         THEN [counts |-> counts,
               result |-> [allowed |-> FALSE, remaining |-> 0, resetTime |-> record.resetTime]]
         ELSE [counts |-> MapSet(counts, key, [record EXCEPT !.count = @ + 1]),
               result |-> [allowed |-> TRUE,
                           remaining |-> ANALYSIS_RATE_LIMIT_MAX_REQUESTS - (record.count + 1),
                           resetTime |-> record.resetTime]]

\* A map with no entry
EmptyMap == [k \in {} |-> 0]

NoRecord == [present |-> FALSE, count |-> 0, resetTime |-> 0]

RecordOf(counts, key) ==
    IF key \in DOMAIN counts
    THEN [present |-> TRUE, count |-> counts[key].count, resetTime |-> counts[key].resetTime]
    ELSE NoRecord

NoCheck ==
    [limiter |-> "none", ip |-> "none", now |-> 0, max |-> 0, window |-> 0, nth |-> 0,
     windowEnd |-> 0, newWindow |-> FALSE, before |-> NoRecord, after |-> NoRecord,
     result |-> [allowed |-> FALSE, remaining |-> 0, resetTime |-> 0]]

\* History of the current window of a key: a window opens with the key's first check
\* and with the first check made strictly after the open window's end; it lasts
\* `window` ms; nth counts the checks made in it.
WindowAfterCheck(hist, key, now, window) ==
    IF key \in DOMAIN hist /\ now <= hist[key].end
    THEN [nth |-> hist[key].nth + 1, end |-> hist[key].end, opened |-> FALSE]
    ELSE [nth |-> 1, end |-> now + window, opened |-> TRUE]

\* One call of checkRateLimit(ip) or checkAnalysisRateLimit(ip) at the current time
RLCheck(limiter, ip) ==
    LET key    == IF limiter = "news" THEN ip ELSE AnalysisKey(ip)
        counts == IF limiter = "news" THEN requestCounts ELSE analysisRequestCounts
        max    == IF limiter = "news" THEN RATE_LIMIT_MAX_REQUESTS
                                      ELSE ANALYSIS_RATE_LIMIT_MAX_REQUESTS
        window == IF limiter = "news" THEN RATE_LIMIT_WINDOW ELSE ANALYSIS_RATE_LIMIT_WINDOW
        r      == IF limiter = "news" THEN checkRateLimit(counts, ip, clock)
                                      ELSE checkAnalysisRateLimit(counts, ip, clock)
        w      == WindowAfterCheck(rlWindow, <<limiter, key>>, clock, window)
    IN  /\ rlRoute = limiter
        /\ w.nth <= max + MaxExtraChecks
        /\ IF limiter = "news"
           THEN requestCounts' = r.counts /\ UNCHANGED analysisRequestCounts
           ELSE analysisRequestCounts' = r.counts /\ UNCHANGED requestCounts
        /\ rlWindow' = MapSet(rlWindow, <<limiter, key>>, [nth |-> w.nth, end |-> w.end])
        /\ UNCHANGED rlRoute
        /\ rlLast' = [limiter |-> limiter, ip |-> ip, now |-> clock, max |-> max,
                      window |-> window, nth |-> w.nth, windowEnd |-> w.end,
                      newWindow |-> w.opened,
                      before |-> RecordOf(counts, key), after |-> RecordOf(r.counts, key),
                      result |-> r.result]

-----------------------------------------------------------------------------
(* Clock and calendar *)

\* Date.now() is counted from a UTC midnight and starts well past every interval the
\* program compares against a zero timestamp
StartTime == 2 * 24 * 60 * 60 * 1000

DAY == 24 * 60 * 60 * 1000

\* toDateString() of the America/Los_Angeles wall clock (UTC-8), as a day number
PacificDate(now) == (now - 8 * 60 * 60 * 1000) \div DAY

-----------------------------------------------------------------------------
(* Content hasher *)

\* charCodeAt of the characters used
CodeUnit == [A |-> 65, B |-> 66, a |-> 97, x |-> 120, bar |-> 124]

\* A step that adds the character to the hash without shifting it
HashStepAdditive(hash, char) ==
    LET lo == hash[2] + char
        hi == hash[1] + (lo \div 65536)
    IN  <<hi % 65536, lo % 65536>>

\* A 32-bit integer as <<high 16 bits, low 16 bits>>
HashStep(hash, char) ==
    LET lo == 31 * hash[2] + char
        hi == 31 * hash[1] + (lo \div 65536)
    IN  <<hi % 65536, lo % 65536>>

RECURSIVE HashLoop(_, _)
\* for (i...) { hash = ((hash << 5) - hash) + char; hash = hash & hash }
HashLoop(hash, content) ==
    IF content = <<>> THEN hash
    ELSE HashLoop(HashStep(hash, Head(content)), Tail(content))

\* `${a.title}|${a.summary}`
ArticleContent(a) == a.title \o <<CodeUnit.bar>> \o a.summary

RECURSIVE JoinContent(_)
\* articles.map(a => `${a.title}|${a.summary}`).join('||')
JoinContent(articles) ==
    IF articles = <<>> THEN <<>>
    ELSE IF Len(articles) = 1 THEN ArticleContent(articles[1])
    ELSE ArticleContent(articles[1]) \o <<CodeUnit.bar, CodeUnit.bar>> \o JoinContent(Tail(articles))

generateContentHash(articles) == <<"sentiment_", HashLoop(<<0, 0>>, JoinContent(articles))>>

generateArticleHash(article) == <<"article_", HashLoop(<<0, 0>>, ArticleContent(article))>>

-----------------------------------------------------------------------------
(* Articles and sentiments *)

\* The articles a batch is made of. ArtAa and ArtBB have the same 32-bit article
\* hash; the content of ArtLong alone is the joined content of <<ArtAa, ArtBB>>.
ArtAa   == [id |-> "n1", title |-> <<CodeUnit.A, CodeUnit.a>>, summary |-> <<CodeUnit.x>>]
ArtBB   == [id |-> "n2", title |-> <<CodeUnit.B, CodeUnit.B>>, summary |-> <<CodeUnit.x>>]
ArtLong == [id |-> "n3", title |-> <<CodeUnit.A, CodeUnit.a>>,
            summary |-> <<CodeUnit.x, CodeUnit.bar, CodeUnit.bar, CodeUnit.B, CodeUnit.B, CodeUnit.bar, CodeUnit.x>>]

Articles == {ArtAa, ArtBB, ArtLong}

\* Batches of at most MaxBatch articles; the callers pass lists without two
\* articles of the same title
Batches ==
    {list \in UNION {[1..n -> Articles] : n \in 0..MaxBatch} :
        \A i, j \in 1..Len(list) : list[i].title = list[j].title => i = j}

\* generateArticleHash and generateContentHash, tabulated
ArticleKey == [a \in Articles |-> generateArticleHash(a)]
ContentKey == [list \in Batches |-> generateContentHash(list)]

\* A sentiment object {sentiment, confidence, summary}; confidence in hundredths.
\* JavaScript's undefined and JSON's null are the two falsy values that occur.
Undefined == [sentiment |-> "undefined", confidence |-> 0, summary |-> <<"undefined">>]
Null == [sentiment |-> "null", confidence |-> 0, summary |-> <<"null">>]

Truthy(v) == v # Undefined /\ v # Null

\* seq[index], undefined past the end of the array
At(seq, index) == IF index \in 1..Len(seq) THEN seq[index] ELSE Undefined

Neutral(summary) == [sentiment |-> "neutral", confidence |-> 0, summary |-> <<summary>>]

-----------------------------------------------------------------------------
(* Usage tracker *)

ModelAvailable == apiKey /\ ~disableGemini

\* checkDailyReset that records the new date and keeps the day's count
checkDailyResetKeepsCount(stats, now) ==
    LET todayPacific == PacificDate(now) IN
    IF stats.lastResetDate # todayPacific
    THEN [stats EXCEPT !.lastResetDate = todayPacific]
    ELSE stats

\* checkDailyReset() at time now
checkDailyReset(stats, now) ==
    LET todayPacific == PacificDate(now) IN
    IF stats.lastResetDate # todayPacific
    THEN [stats EXCEPT !.todaysCalls = 0, !.lastResetDate = todayPacific]
    ELSE stats

\* trackApiCall() at time now
trackApiCall(stats, now) ==
    LET s == checkDailyReset(stats, now) IN
    [s EXCEPT !.totalCalls = @ + 1, !.todaysCalls = @ + 1, !.lastCallTime = now]

\* An error object: whether its message includes 'quota', whether it includes
\* 'rate limit' or 'Too Many Requests', and its status
NetworkError   == [quota |-> FALSE, rateLimit |-> FALSE, status |-> 0]
Status429Error == [quota |-> FALSE, rateLimit |-> TRUE,  status |-> 429]
\* An error whose message includes 'Too Many Requests'
RateLimitError == [quota |-> FALSE, rateLimit |-> TRUE,  status |-> 0]
\* JSON.parse's SyntaxError
ParseError     == [quota |-> FALSE, rateLimit |-> FALSE, status |-> 0]

\* trackApiResult that counts a failure only when it classifies the error
trackApiResultClassifiedOnly(stats, success, error, estimatedTokens) ==
    IF success
    THEN [stats EXCEPT !.successfulCalls = @ + 1, !.estimatedTokensUsed = @ + estimatedTokens]
    ELSE IF error.quota \/ error.status = 429
    THEN [stats EXCEPT !.failedCalls = @ + 1, !.quotaErrors = @ + 1]
    ELSE IF error.rateLimit
    THEN [stats EXCEPT !.failedCalls = @ + 1, !.rateLimitErrors = @ + 1]
    ELSE stats

\* trackApiResult with two independent tests in place of the else-if
trackApiResultBothClasses(stats, success, error, estimatedTokens) ==
    IF success
    THEN [stats EXCEPT !.successfulCalls = @ + 1, !.estimatedTokensUsed = @ + estimatedTokens]
    ELSE [stats EXCEPT !.failedCalls = @ + 1,
                       !.quotaErrors = IF error.quota \/ error.status = 429 THEN @ + 1 ELSE @,
                       !.rateLimitErrors = IF error.rateLimit THEN @ + 1 ELSE @]

\* trackApiResult(success, error, estimatedTokens)
trackApiResult(stats, success, error, estimatedTokens) ==
    IF success
    THEN [stats EXCEPT !.successfulCalls = @ + 1, !.estimatedTokensUsed = @ + estimatedTokens]
    ELSE LET s == [stats EXCEPT !.failedCalls = @ + 1] IN
         IF error.quota \/ error.status = 429
         THEN [s EXCEPT !.quotaErrors = @ + 1]
         ELSE IF error.rateLimit
         THEN [s EXCEPT !.rateLimitErrors = @ + 1]
         ELSE s

\* logUsageStats that counts itself as a call
logUsageStatsCountsCall(stats, now) == trackApiCall(stats, now)

\* getUsageStats() changes the counters by its checkDailyReset(); logUsageStats()
\* calls it and prints
logUsageStats(stats, now) == checkDailyReset(stats, now)

-----------------------------------------------------------------------------
(* Sentiment caches *)

SENTIMENT_CACHE_DURATION == 60 * 60 * 1000
ARTICLE_CACHE_DURATION == 24 * 60 * 60 * 1000

\* A per-item lookup that applies the batch cache's duration
ArticleCacheHitBatchDuration(cache, articleKey, now) ==
    /\ articleKey \in DOMAIN cache
    /\ (now - cache[articleKey].timestamp) < SENTIMENT_CACHE_DURATION

\* A per-item lookup that never finds the entry
ArticleCacheHitNever(cache, articleKey, now) == FALSE

\* cached && (now - cached.timestamp) < ARTICLE_CACHE_DURATION
ArticleCacheHit(cache, articleKey, now) ==
    /\ articleKey \in DOMAIN cache
    /\ (now - cache[articleKey].timestamp) < ARTICLE_CACHE_DURATION

\* getCachedArticleSentiments(articles) at time now; uncachedArticles as the
\* indices of the articles, in order
getCachedArticleSentiments(cache, articles, now) ==
    LET Hit(index) == ArticleCacheHit(cache, ArticleKey[articles[index]], now)
        Miss(index) == ~Hit(index)
        indices == [index \in 1..Len(articles) |-> index]
    IN  [cachedResults |-> [index \in 1..Len(articles) |->
                               IF Hit(index)
                               THEN cache[ArticleKey[articles[index]]].sentiment
                               ELSE Null],
         uncachedArticles |-> SelectSeq(indices, Miss),
         hits |-> Len(SelectSeq(indices, Hit)),
         misses |-> Len(SelectSeq(indices, Miss))]

RECURSIVE CacheFrom(_, _, _, _, _)
\* articles.forEach((article, index) => { if (sentiments[index]) cache.set(key, ...) })
CacheFrom(cache, articles, sentiments, now, index) ==
    IF index > Len(articles) THEN cache
    ELSE LET articleKey == ArticleKey[articles[index]]
             sentiment == At(sentiments, index)
         IN  CacheFrom(IF Truthy(sentiment)
                       THEN MapSet(cache, articleKey,
                                   [timestamp |-> now, sentiment |-> sentiment,
                                    writtenAt |-> clock])
                       ELSE cache,
                       articles, sentiments, now, index + 1)

\* A step 5 that stores nothing
cacheArticleSentimentsNone(cache, articles, sentiments, now) == cache

\* cacheArticleSentiments(articles, sentiments) at time now (writtenAt is history:
\* the time of the set() call)
cacheArticleSentiments(cache, articles, sentiments, now) ==
    CacheFrom(cache, articles, sentiments, now, 1)

\* A lookup that never finds the batch entry
BulkCacheHitNever(cache, contentKey, now) == FALSE

\* bulkCached && (now - bulkCached.timestamp) < SENTIMENT_CACHE_DURATION
BulkCacheHit(cache, contentKey, now) ==
    /\ contentKey \in DOMAIN cache
    /\ (now - cache[contentKey].timestamp) < SENTIMENT_CACHE_DURATION

\* A sweep that applies the batch cache's duration to the per-item entries too
cleanupSentimentCacheOneDuration(bulkCache, articleCache, now) ==
    [bulk |-> [key \in {k \in DOMAIN bulkCache :
                           ~(now - bulkCache[k].timestamp > SENTIMENT_CACHE_DURATION)}
                  |-> bulkCache[key]],
     article |-> [key \in {k \in DOMAIN articleCache :
                              ~(now - articleCache[k].timestamp > SENTIMENT_CACHE_DURATION)}
                     |-> articleCache[key]]]

\* cleanupSentimentCache() at time now: both maps afterwards
cleanupSentimentCache(bulkCache, articleCache, now) ==
    [bulk |-> [key \in {k \in DOMAIN bulkCache :
                           ~(now - bulkCache[k].timestamp > SENTIMENT_CACHE_DURATION)}
                  |-> bulkCache[key]],
     article |-> [key \in {k \in DOMAIN articleCache :
                              ~(now - articleCache[k].timestamp > ARTICLE_CACHE_DURATION)}
                     |-> articleCache[key]]]

-----------------------------------------------------------------------------
(* The external model *)

\* What the model answers for the index-th article of the prompt of call callNo
ModelItem(callNo, index) ==
    [sentiment |-> IF index % 2 = 1 THEN "positive" ELSE "negative",
     confidence |-> 85,
     summary |-> <<"analysis", callNo, index>>]

\* The outcomes of `await model.generateContent(prompt)` and response.text() for a
\* prompt of k articles: a thrown error; text that is not JSON; JSON that is not
\* an array; a JSON array of 0..k+1 sentiment objects; the JSON array [null].
Responses(callNo, k) ==
    {[kind |-> "error", error |-> e, items |-> <<>>, textLength |-> 0] :
        e \in {NetworkError, Status429Error, RateLimitError}}
    \cup {[kind |-> "invalid", error |-> ParseError, items |-> <<>>, textLength |-> 12],
          [kind |-> "nonarray", error |-> ParseError, items |-> <<>>, textLength |-> 2],
          [kind |-> "array", error |-> ParseError, items |-> <<Null>>, textLength |-> 6]}
    \cup {[kind |-> "array", error |-> ParseError,
           items |-> [index \in 1..m |-> ModelItem(callNo, index)],
           textLength |-> 2 + 80 * m] : m \in 0..(k + 1)}

\* The prompt's template without ${combinedText}
PROMPT_TEMPLATE_LENGTH == 977

RECURSIVE CombinedTextLength(_, _)
\* `Article ${index + 1}: "${article.title}" - ${article.summary}` joined by '\n\n'
CombinedTextLength(list, index) ==
    IF index > Len(list) THEN 0
    ELSE 8 + 1 + 3 + Len(list[index].title) + 4 + Len(list[index].summary)
         + (IF index < Len(list) THEN 2 ELSE 0)
         + CombinedTextLength(list, index + 1)

PromptLength(list) == PROMPT_TEMPLATE_LENGTH + CombinedTextLength(list, 1)

\* Math.round((prompt.length + text.length) / 4)
EstimatedTokens(list, textLength) == (PromptLength(list) + textLength + 2) \div 4

-----------------------------------------------------------------------------
(* analyzeBulkSentiment *)

NoKey == <<"sentiment_", <<0, 0>>>>

NoResponse == [kind |-> "none", error |-> ParseError, items |-> <<>>, textLength |-> 0]

\* The locals of an invocation, and how it went: the branch taken, the answer of the
\* model, whether it threw
NoCall ==
    [callNo |-> 0, articles |-> <<>>, cachedResults |-> <<>>,
     uncachedArticles |-> <<>>, contentKey |-> NoKey, now |-> 0, prompt |-> <<>>,
     path |-> "none", response |-> NoResponse, newSentiments |-> <<>>, result |-> <<>>,
     threw |-> FALSE]

\* The map without its entry for key
MapDelete(m, key) == [k \in DOMAIN m \ {key} |-> m[k]]

\* A prompt list of all the articles of the request
UncachedArticleListAll(articles, uncachedArticles) == articles

\* uncachedArticles.map(item => item.article)
UncachedArticleList(articles, uncachedArticles) ==
    [index \in 1..Len(uncachedArticles) |-> articles[uncachedArticles[index]]]

RECURSIVE MergeFrom(_, _, _, _)
\* Step 6: for (let i...) finalResults[i] = cachedResults[i] ? cachedResults[i]
\*                                         : newSentiments[newSentimentIndex++]
MergeFrom(cachedResults, newSentiments, i, newSentimentIndex) ==
    IF i > Len(cachedResults) THEN <<>>
    ELSE IF Truthy(cachedResults[i])
    THEN <<cachedResults[i]>> \o MergeFrom(cachedResults, newSentiments, i + 1, newSentimentIndex)
    ELSE <<At(newSentiments, newSentimentIndex)>>
         \o MergeFrom(cachedResults, newSentiments, i + 1, newSentimentIndex + 1)

\* Step 5: if (newSentiments.length > 0) cacheArticleSentiments(uncachedArticleList, newSentiments)
StoreNewSentiments(cache, list, newSentiments, now) ==
    IF Len(newSentiments) > 0
    THEN cacheArticleSentiments(cache, list, newSentiments, now)
    ELSE cache

\* The parsed results without the placeholder for a missing or falsy element
PadResultsNone(results, k) == [index \in 1..k |-> At(results, index)]

\* results[index] || {neutral, 0, 'Unable to analyze sentiment'} for each uncached article
PadResults(results, k) ==
    [index \in 1..k |-> IF Truthy(At(results, index)) THEN results[index]
                        ELSE Neutral("Unable to analyze sentiment")]

\* The catch block's fallback for the articles of a failed call
ApiErrorFallback(k) ==
    [index \in 1..k |-> Neutral("Unable to analyze sentiment due to API error")]

\* Step 3's result with no reason in the placeholder
DisabledResultsNoReason(cachedResults) ==
    [index \in 1..Len(cachedResults) |->
        IF Truthy(cachedResults[index]) THEN cachedResults[index]
        ELSE Neutral("")]

\* Step 3's result: cached || {neutral, 0, reason}
DisabledResults(cachedResults) ==
    [index \in 1..Len(cachedResults) |->
        IF Truthy(cachedResults[index]) THEN cachedResults[index]
        ELSE Neutral(IF disableGemini
                     THEN "Gemini API disabled - enable to analyze this article"
                     ELSE "API key not configured")]

\* analyzeBulkSentiment(articles) from its entry to its first await or its return
AnalyzeStart(articles) ==
    LET g == getCachedArticleSentiments(individualArticleCache, articles, clock)
        uncachedArticleList == UncachedArticleList(articles, g.uncachedArticles)
        contentKey == ContentKey[uncachedArticleList]
        now == clock
        entered == [NoCall EXCEPT !.callNo = callsMade + 1, !.articles = articles,
                                  !.cachedResults = g.cachedResults,
                                  !.uncachedArticles = g.uncachedArticles]
    IN  /\ callsMade < MaxCalls
        /\ callsMade' = callsMade + 1
        /\ IF g.misses = 0
           THEN \* Step 2
                /\ returned' = [entered EXCEPT !.path = "complete-cache",
                                               !.result = g.cachedResults]
                /\ UNCHANGED <<calls, usageStats, sentimentCache, individualArticleCache,
                               modelInvocations>>
           ELSE IF ~ModelAvailable \/ disableGemini
           THEN \* Step 3
                /\ returned' = [entered EXCEPT !.path = "disabled",
                                               !.result = DisabledResults(g.cachedResults)]
                /\ UNCHANGED <<calls, usageStats, sentimentCache, individualArticleCache,
                               modelInvocations>>
           ELSE IF Len(g.uncachedArticles) > 0
           THEN \* Step 4
                IF BulkCacheHit(sentimentCache, contentKey, now)
                THEN LET newSentiments == sentimentCache[contentKey].data IN
                     /\ individualArticleCache' =
                            StoreNewSentiments(individualArticleCache, uncachedArticleList,
                                               newSentiments, clock)
                     /\ returned' = [entered EXCEPT !.path = "bulk-hit",
                                          !.contentKey = contentKey, !.now = now,
                                          !.newSentiments = newSentiments,
                                          !.result = MergeFrom(g.cachedResults,
                                                               newSentiments, 1, 1)]
                     /\ UNCHANGED <<calls, usageStats, sentimentCache, modelInvocations>>
                ELSE /\ usageStats' = trackApiCall(usageStats, clock)
                     /\ modelInvocations' = modelInvocations + 1
                     /\ calls' = MapSet(calls, callsMade + 1,
                                        [entered EXCEPT !.path = "api",
                                             !.contentKey = contentKey, !.now = now,
                                             !.prompt = uncachedArticleList])
                     /\ UNCHANGED <<returned, sentimentCache, individualArticleCache>>
           ELSE \* Step 7
                /\ returned' = [entered EXCEPT !.path = "fallback",
                                     !.result = [index \in 1..Len(articles) |->
                                         Neutral("Unexpected error in sentiment analysis")]]
                /\ UNCHANGED <<calls, usageStats, sentimentCache, individualArticleCache,
                               modelInvocations>>

\* analyzeBulkSentiment from the answer of the model to its return
AnalyzeResume(callNo, response) ==
    LET call == calls[callNo]
        uncachedArticleList == call.prompt
        k == Len(uncachedArticleList)
        estimatedTokens == EstimatedTokens(uncachedArticleList, response.textLength)
        answered == response.kind # "error"
        parsed == response.kind \in {"nonarray", "array"}
        results == IF response.kind = "array" THEN response.items ELSE <<>>
        newSentiments == IF parsed THEN PadResults(results, k) ELSE ApiErrorFallback(k)
        tracked == IF answered THEN trackApiResult(usageStats, TRUE, ParseError, estimatedTokens)
                   ELSE usageStats
        caught == IF parsed THEN tracked
                  ELSE trackApiResult(tracked, FALSE, response.error, 0)
    IN  /\ usageStats' = logUsageStats(caught, clock)
        /\ sentimentCache' =
               IF parsed
               THEN MapSet(sentimentCache, call.contentKey,
                           [timestamp |-> call.now, data |-> newSentiments,
                            writtenAt |-> clock])
               ELSE sentimentCache
        /\ individualArticleCache' =
               StoreNewSentiments(individualArticleCache, uncachedArticleList,
                                  newSentiments, clock)
        /\ calls' = MapDelete(calls, callNo)
        /\ returned' = [call EXCEPT !.path = IF parsed THEN "api-success" ELSE "api-failure",
                                    !.response = response,
                                    !.newSentiments = newSentiments,
                                    !.result = MergeFrom(call.cachedResults, newSentiments, 1, 1)]
        /\ UNCHANGED <<modelInvocations, callsMade>>

-----------------------------------------------------------------------------
(* calculateOverallSentiment *)

\* A confidence the route computes: num / den, or NaN
Ratio(num, den) == [nan |-> FALSE, num |-> num, den |-> den]

NaN == [nan |-> TRUE, num |-> 0, den |-> 1]

Min(a, b) == IF a <= b THEN a ELSE b

Max(a, b) == IF a >= b THEN a ELSE b

\* The route's null sentiment
NoOverall ==
    [overallSentiment |-> "null", confidence |-> Ratio(0, 1), summary |-> <<"null">>,
     breakdown |-> [positive |-> 0, negative |-> 0, neutral |-> 0]]

RECURSIVE WeightedScoreByCount(_, _, _)
\* A score that weighs every article of the label alike
WeightedScoreByCount(validSentiments, label, index) ==
    IF index > Len(validSentiments) THEN 0
    ELSE (IF validSentiments[index].sentiment = label THEN 100 ELSE 0)
         + WeightedScoreByCount(validSentiments, label, index + 1)

RECURSIVE WeightedScore(_, _, _)
\* The sum of the confidences (in hundredths) of the sentiments of one label, from index on
WeightedScore(validSentiments, label, index) ==
    IF index > Len(validSentiments) THEN 0
    ELSE (IF (IF validSentiments[index].sentiment \in {"positive", "negative"}
              THEN validSentiments[index].sentiment ELSE "neutral") = label
          THEN validSentiments[index].confidence ELSE 0)
         + WeightedScore(validSentiments, label, index + 1)

\* calculateOverallSentiment(articles), given the sentiment of each article
calculateOverallSentiment(sentiments) ==
    LET validSentiments == SelectSeq(sentiments, Truthy)
        n == Len(validSentiments)
        Count(label) == Cardinality({i \in 1..n : validSentiments[i].sentiment = label})
        breakdown == [positive |-> Count("positive"), negative |-> Count("negative"),
                      neutral |-> Count("neutral")]
        positive == WeightedScore(validSentiments, "positive", 1)
        negative == WeightedScore(validSentiments, "negative", 1)
        neutral == WeightedScore(validSentiments, "neutral", 1)
        totalWeight == positive + negative + neutral
        \* (score / totalWeight) * avgConfidence with avgConfidence = totalWeight / n / 100,
        \* capped by Math.min(0.95, ...)
        Confidence(score10) == Ratio(Min(950 * n, score10), 1000 * n)
        overallSentiment ==
            IF positive > negative /\ positive > neutral THEN "positive"
            ELSE IF negative > positive /\ negative > neutral THEN "negative"
            ELSE "neutral"
        confidence ==
            IF overallSentiment = "positive" THEN Confidence(10 * positive)
            ELSE IF overallSentiment = "negative" THEN Confidence(10 * negative)
            ELSE IF totalWeight = 0 THEN NaN
            ELSE Confidence(Max(10 * neutral, 3 * totalWeight))
        \* Object.entries(breakdown).sort(([,a], [,b]) => b - a)[0][0], a stable sort
        dominantSentiment ==
            IF breakdown.positive >= breakdown.negative /\ breakdown.positive >= breakdown.neutral
            THEN "positive"
            ELSE IF breakdown.negative >= breakdown.neutral THEN "negative"
            ELSE "neutral"
    IN  IF n = 0
        THEN [overallSentiment |-> "neutral", confidence |-> Ratio(0, 1),
              summary |-> <<"No sentiment data available">>,
              breakdown |-> [positive |-> 0, negative |-> 0, neutral |-> 0]]
        ELSE [overallSentiment |-> overallSentiment, confidence |-> confidence,
              summary |-> <<"Market sentiment appears", overallSentiment, "based on", n,
                            "articles. Breakdown:", breakdown.positive, "positive,",
                            breakdown.negative, "negative,", breakdown.neutral, "neutral.",
                            IF dominantSentiment = "positive" THEN "Bullish indicators dominate."
                            ELSE IF dominantSentiment = "negative" THEN "Bearish concerns present."
                            ELSE "Mixed signals in the market.">>,
              breakdown |-> breakdown]

-----------------------------------------------------------------------------
(* News route: GET *)

CACHE_DURATION == 24 * 60 * 60 * 1000
SENTIMENT_UPDATE_INTERVAL == 30 * 60 * 1000

\* cachedData = null
NoCachedData ==
    [present |-> FALSE, articles |-> <<>>, sentiments |-> <<>>, sentiment |-> NoOverall,
     timestamp |-> 0]

NoRateLimitResult == [allowed |-> FALSE, remaining |-> 0, resetTime |-> 0]

\* A response: its status, its X-Data-Source, its articles with their sentiments and
\* its overall sentiment; the rate-limit result behind its X-RateLimit headers is kept
\* for the responses sent before the first await
NoNewsResponse ==
    [status |-> 0, source |-> "none", ip |-> "none", rateLimitResult |-> NoRateLimitResult,
     articles |-> <<>>, sentiments |-> <<>>, overallSentiment |-> NoOverall]

\* The 429 response of a rejected request
RateLimitExceeded(ip, rateLimitResult) ==
    [NoNewsResponse EXCEPT !.status = 429, !.source = "rate-limit", !.ip = ip,
                           !.rateLimitResult = rateLimitResult]

\* The 200 response built from cachedData, of source 'cache' or 'cached-sentiment'
CachedResponse(ip, rateLimitResult, source) ==
    [status |-> 200, source |-> source, ip |-> ip, rateLimitResult |-> rateLimitResult,
     articles |-> cachedData.articles, sentiments |-> cachedData.sentiments,
     overallSentiment |-> cachedData.sentiment]

\* The smallest free slot for a request that awaits
FreeSlot == CHOOSE id \in 1..MaxInFlight :
                /\ id \notin DOMAIN newsRequests
                /\ \A other \in 1..(id - 1) : other \in DOMAIN newsRequests

\* GET from its entry to its first await or its return
NewsGetStart(ip) ==
    /\ RLCheck("news", ip)
    /\ LET rateLimitResult == rlLast'.result
           now == clock
           shouldUpdateSentiment == (now - lastSentimentUpdate) >= SENTIMENT_UPDATE_INTERVAL
       IN  IF ~rateLimitResult.allowed
           THEN /\ lastResponse' = RateLimitExceeded(ip, rateLimitResult)
                /\ UNCHANGED <<cachedData, lastSentimentUpdate, newsRequests>>
           ELSE IF cachedData.present /\ (now - cachedData.timestamp) < CACHE_DURATION
           THEN /\ lastResponse' = CachedResponse(ip, rateLimitResult, "cache")
                /\ UNCHANGED <<cachedData, lastSentimentUpdate, newsRequests>>
           ELSE IF ~shouldUpdateSentiment /\ cachedData.present
           THEN /\ lastResponse' = CachedResponse(ip, rateLimitResult, "cached-sentiment")
                /\ UNCHANGED <<cachedData, lastSentimentUpdate, newsRequests>>
           ELSE /\ Cardinality(DOMAIN newsRequests) < MaxInFlight
                /\ newsRequests' =
                       MapSet(newsRequests, FreeSlot,
                              [ip |-> ip, now |-> now,
                               shouldUpdateSentiment |-> shouldUpdateSentiment,
                               stage |-> "fetching", articles |-> <<>>, callNo |-> 0])
                /\ UNCHANGED <<cachedData, lastSentimentUpdate, lastResponse>>
    /\ UNCHANGED <<burstVars, sweepVars, analysisVars, serviceVars, pureVars, usageVars, timeVars, geminiVars>>

\* The end of GET: the fallback sentiment, the cache update and the response
NewsFinish(id, articles, sentiments, sentiment) ==
    LET request == newsRequests[id]
        final == IF sentiment = NoOverall
                 THEN [overallSentiment |-> "neutral", confidence |-> Ratio(500, 1000),
                       summary |-> <<"Sentiment analysis not available">>,
                       breakdown |-> [positive |-> 0, negative |-> 0,
                                      neutral |-> Len(articles)]]
                 ELSE sentiment
    IN  /\ cachedData' = [present |-> TRUE, articles |-> articles, sentiments |-> sentiments,
                          sentiment |-> final, timestamp |-> request.now]
        /\ lastResponse' = [status |-> 200, source |-> "yahoo-scraping", ip |-> request.ip,
                            rateLimitResult |-> NoRateLimitResult,
                            articles |-> articles, sentiments |-> sentiments,
                            overallSentiment |-> final]
        /\ newsRequests' = MapDelete(newsRequests, id)

\* The end of GET after analyzeBulkSentiment returned sentimentResults
NewsFinishAnalysed(id, articles, sentimentResults) ==
    /\ NewsFinish(id, articles, [index \in 1..Len(articles) |-> At(sentimentResults, index)],
                  calculateOverallSentiment(
                      [index \in 1..Len(articles) |-> At(sentimentResults, index)]))
    /\ lastSentimentUpdate' = newsRequests[id].now

\* GET from the return of getFinancialNews() to its next await or its return
NewsFetched(id, articles) ==
    LET request == newsRequests[id] IN
    /\ request.stage = "fetching"
    /\ IF apiKey /\ request.shouldUpdateSentiment
       THEN /\ AnalyzeStart(articles)
            /\ analysedAt' = Append(analysedAt, clock)
            /\ IF (callsMade + 1) \in DOMAIN calls'
               THEN /\ newsRequests' =
                           [newsRequests EXCEPT ![id].stage = "analyzing",
                                                ![id].articles = articles,
                                                ![id].callNo = callsMade + 1]
                    /\ UNCHANGED <<cachedData, lastSentimentUpdate, lastResponse>>
               ELSE NewsFinishAnalysed(id, articles, returned'.result)
       ELSE /\ IF cachedData.present
               THEN NewsFinish(id, articles,
                               IF Len(cachedData.articles) > 0
                               THEN [index \in 1..Len(articles) |->
                                        IF Truthy(At(cachedData.sentiments, index))
                                        THEN cachedData.sentiments[index] ELSE Undefined]
                               ELSE [index \in 1..Len(articles) |-> Undefined],
                               cachedData.sentiment)
               ELSE NewsFinish(id, articles, [index \in 1..Len(articles) |-> Undefined],
                               NoOverall)
            /\ UNCHANGED <<lastSentimentUpdate, geminiVars, analysisVars>>
    /\ UNCHANGED <<burstVars, sweepVars, serviceVars, pureVars, usageVars, timeVars, rlVars, disableGemini, apiKey>>

\* GET from the model's answer inside analyzeBulkSentiment to its return
NewsAnalysed(id, response) ==
    LET request == newsRequests[id] IN
    /\ request.stage = "analyzing"
    /\ request.callNo \in DOMAIN calls
    /\ AnalyzeResume(request.callNo, response)
    /\ NewsFinishAnalysed(id, request.articles, returned'.result)
    /\ UNCHANGED <<burstVars, sweepVars, analysisVars, serviceVars, pureVars, usageVars, timeVars, rlVars, disableGemini, apiKey>>

-----------------------------------------------------------------------------
(* The gemini-usage route *)

\* The free-tier limit that getUsageStats() reports against
dailyQuotaLimit == 50

NoUsageResponse == [status |-> 0]

\* getUsageStats() at time now: the counters after its checkDailyReset(), and the
\* object it returns (the texts as the numbers they are formatted from)
getUsageStats(stats, bulkCache, articleCache, now) ==
    LET s == checkDailyReset(stats, now)
        quotaRemaining == Max(0, dailyQuotaLimit - s.todaysCalls)
        bulkCacheSize == Cardinality(DOMAIN bulkCache)
        articleCacheSize == Cardinality(DOMAIN articleCache)
    IN  [stats |-> s,
         result |-> [usage |-> s,
                     dailyQuotaUsed |-> <<s.todaysCalls, dailyQuotaLimit>>,
                     quotaRemaining |-> quotaRemaining,
                     nextResetTime |-> PacificDate(now) + 1,
                     cacheStats |-> [bulkCacheSize |-> bulkCacheSize,
                                     articleCacheSize |-> articleCacheSize,
                                     totalCachedArticles |-> articleCacheSize,
                                     cacheHitRate |-> <<s.successfulCalls, s.totalCalls>>]]]

\* GET /api/gemini-usage: getUsageStats(), logUsageStats(), then the response
UsageGet ==
    LET got == getUsageStats(usageStats, sentimentCache, individualArticleCache, clock)
        stats == got.result
        logged == logUsageStats(got.stats, clock)
    IN  /\ usageStats' = logged
        /\ usageResponse' =
               [status |-> 200,
                usage |-> stats,
                articleCacheSize |-> stats.cacheStats.articleCacheSize,
                bulkCacheSize |-> stats.cacheStats.bulkCacheSize,
                timestamp |-> clock,
                dailyQuotaStatus |-> IF stats.usage.todaysCalls >= 45 THEN "critical"
                                     ELSE IF stats.usage.todaysCalls >= 30 THEN "warning"
                                     ELSE "good"]
        /\ UNCHANGED <<disableGemini, apiKey, sentimentCache, individualArticleCache,
                       calls, callsMade, returned, modelInvocations>>
        /\ UNCHANGED <<timeVars, rlVars, newsVars, pureVars, burstVars, sweepVars, analysisVars, serviceVars>>

-----------------------------------------------------------------------------
(* ServerDataService *)

\* config.maxRetries of the exported singleton
maxRetries == 3

\* Stock and news lists: none fetched yet, the list a fetch of update `id` returned,
\* the hard-coded fallback stocks
NoData == <<"none", 0>>
Fetched(id) == <<"fetched", id>>
getFallbackStocks == <<"fallback", 0>>

\* getCachedData() while data/cache.json does not exist
DefaultData == [stocks |-> NoData, news |-> NoData, overallSentiment |-> FALSE]

\* An update that returned at `Update already in progress, skipping...`
SkippedUpdate(kind) ==
    [kind |-> kind, stage |-> "skipped", attempt |-> 0, cachedData |-> DefaultData]

\* An update entered without looking at isUpdating
updateEnterUnguarded(state, kind, file) ==
    [isUpdating |-> TRUE,
     updates |-> Append(state.updates,
                        [kind |-> kind, stage |-> "fetching", attempt |-> 1,
                         cachedData |-> file])]

\* updateStocks() / updateNews() from the call to the first await (inside the first
\* attempt of the fetch) or to the early return; state is [isUpdating, updates]
updateEnter(state, kind, file) ==
    IF state.isUpdating
    THEN [state EXCEPT !.updates = Append(@, SkippedUpdate(kind))]
    ELSE [isUpdating |-> TRUE,
          updates |-> Append(state.updates,
                             [kind |-> kind, stage |-> "fetching", attempt |-> 1,
                              cachedData |-> file])]

\* A retry loop that goes one attempt further
fetchStocksWithRetryOneMore(id, attempt, outcome) ==
    IF outcome = "ok"
    THEN [returns |-> TRUE, stocks |-> Fetched(id)]
    ELSE IF attempt = maxRetries + 1
    THEN [returns |-> TRUE, stocks |-> getFallbackStocks]
    ELSE [returns |-> FALSE, stocks |-> NoData]

\* One attempt of fetchStocksWithRetry() once getPopularStocks() settled: "ok" is a
\* non-empty array, "failed" a rejection or anything else
fetchStocksWithRetry(id, attempt, outcome) ==
    IF outcome = "ok"
    THEN [returns |-> TRUE, stocks |-> Fetched(id)]
    ELSE IF attempt = maxRetries
    THEN [returns |-> TRUE, stocks |-> getFallbackStocks]
    ELSE [returns |-> FALSE, stocks |-> NoData]

\* One attempt of fetchNewsWithRetry() once getNewsWithFallback() and the sentiment
\* analysis settled: "ok" is an array analysed, "plain" an array whose analysis threw
fetchNewsWithRetry(id, attempt, outcome) ==
    IF outcome \in {"ok", "plain"}
    THEN [returns |-> TRUE, news |-> Fetched(id), sentiment |-> (outcome = "ok")]
    ELSE IF attempt = maxRetries
    THEN [returns |-> TRUE, news |-> NoData, sentiment |-> FALSE]
    ELSE [returns |-> FALSE, news |-> NoData, sentiment |-> FALSE]

ServiceState == [isUpdating |-> isUpdating, updates |-> updates]

\* this.updateStocks() called by a timer or by the admin POST
updateStocks ==
    /\ Len(updates) < MaxUpdates
    /\ LET state == updateEnter(ServiceState, "stocks", cacheFile) IN
          /\ isUpdating' = state.isUpdating
          /\ updates' = state.updates
    /\ UNCHANGED <<updateIntervals, cacheFile, updateAllCalls>>

\* this.updateNews() called by a timer or by the admin POST
updateNews ==
    /\ Len(updates) < MaxUpdates
    /\ LET state == updateEnter(ServiceState, "news", cacheFile) IN
          /\ isUpdating' = state.isUpdating
          /\ updates' = state.updates
    /\ UNCHANGED <<updateIntervals, cacheFile, updateAllCalls>>

\* Promise.all([this.updateStocks(), this.updateNews()]): both calls, each to its
\* first await or its early return
UpdateAllEnter ==
    /\ Len(updates) + 2 <= MaxUpdates
    /\ LET state == updateEnter(updateEnter(ServiceState, "stocks", cacheFile),
                                "news", cacheFile)
       IN  /\ isUpdating' = state.isUpdating
           /\ updates' = state.updates
           /\ updateAllCalls' = Append(updateAllCalls,
                                       [stocks |-> Len(updates) + 1,
                                        news |-> Len(updates) + 2,
                                        idle |-> ~isUpdating])

\* updateAll() to its await
updateAll ==
    /\ UpdateAllEnter
    /\ UNCHANGED <<updateIntervals, cacheFile>>

\* startPeriodicUpdates(): the initial updateAll() and the two setInterval handles
startPeriodicUpdates ==
    /\ Len(updateIntervals) < 2 * MaxStarts
    /\ UpdateAllEnter
    /\ updateIntervals' = updateIntervals \o <<"stocks", "news">>
    /\ UNCHANGED cacheFile

\* stopPeriodicUpdates()
stopPeriodicUpdates ==
    /\ updateIntervals' = <<>>
    /\ UNCHANGED <<isUpdating, cacheFile, updates, updateAllCalls>>

\* The callback of the index-th running timer
IntervalFires(index) ==
    IF updateIntervals[index] = "stocks" THEN updateStocks ELSE updateNews

\* An update from the settling of its fetch to the retry delay or, through
\* saveCachedData() and the finally block, to its return
FetchSettles(id, outcome) ==
    LET task == updates[id]
        stocks == fetchStocksWithRetry(id, task.attempt, outcome)
        news == fetchNewsWithRetry(id, task.attempt, outcome)
        returns == IF task.kind = "stocks" THEN stocks.returns ELSE news.returns
    IN  /\ task.stage = "fetching"
        /\ IF returns
           THEN /\ cacheFile' = IF task.kind = "stocks"
                                THEN [task.cachedData EXCEPT !.stocks = stocks.stocks]
                                ELSE [task.cachedData EXCEPT !.news = news.news,
                                                             !.overallSentiment = news.sentiment]
                /\ isUpdating' = FALSE
                /\ updates' = [updates EXCEPT ![id].stage = "done"]
           ELSE /\ updates' = [updates EXCEPT ![id].stage = "waiting"]
                /\ UNCHANGED <<cacheFile, isUpdating>>
        /\ UNCHANGED <<updateIntervals, updateAllCalls>>

\* The delay of 2000 * attempt ms ends and the next attempt begins
RetryDelayEnds(id) ==
    /\ updates[id].stage = "waiting"
    /\ updates' = [updates EXCEPT ![id].stage = "fetching", ![id].attempt = @ + 1]
    /\ UNCHANGED <<isUpdating, updateIntervals, cacheFile, updateAllCalls>>

-----------------------------------------------------------------------------
(* Specifications *)

vars == <<clock, ticks, requestCounts, analysisRequestCounts, rlRoute, rlLast, rlWindow,
          disableGemini, apiKey, usageStats, sentimentCache, individualArticleCache,
          calls, callsMade, returned, modelInvocations,
          cachedData, lastSentimentUpdate, newsRequests, lastResponse, usageResponse,
          pureArgs, pureResult, rlChecks, unswept,
          analysedAt, isUpdating, updateIntervals, cacheFile, updates, updateAllCalls>>

\* new Date().toDateString() in the server's own time zone: UTC or Pacific time
ServerDates(now) == {now \div DAY, PacificDate(now)}

InitUsageStats(lastResetDate) ==
    [totalCalls |-> 0, successfulCalls |-> 0, failedCalls |-> 0, lastCallTime |-> 0,
     quotaErrors |-> 0, rateLimitErrors |-> 0, estimatedTokensUsed |-> 0,
     todaysCalls |-> 0, lastResetDate |-> lastResetDate]

InitClock ==
    /\ clock = StartTime
    /\ ticks = 0

InitLimiters ==
    /\ requestCounts = EmptyMap
    /\ analysisRequestCounts = EmptyMap
    /\ rlLast = NoCheck
    /\ rlWindow = EmptyMap
    /\ rlChecks = EmptyMap

InitGemini ==
    /\ usageStats \in {InitUsageStats(d) : d \in ServerDates(StartTime)}
    /\ sentimentCache = EmptyMap
    /\ individualArticleCache = EmptyMap
    /\ unswept = [bulk |-> EmptyMap, article |-> EmptyMap]
    /\ calls = EmptyMap
    /\ callsMade = 0
    /\ returned = NoCall
    /\ modelInvocations = 0

\* No pure function is under study
NoPureCall ==
    /\ pureArgs = <<>>
    /\ pureResult = <<>>

\* The singleton after construction, before anything started it
InitService ==
    /\ isUpdating = FALSE
    /\ updateIntervals = <<>>
    /\ cacheFile = DefaultData
    /\ updates = <<>>
    /\ updateAllCalls = <<>>

InitNews ==
    /\ cachedData = NoCachedData
    /\ lastSentimentUpdate = 0
    /\ newsRequests = EmptyMap
    /\ lastResponse = NoNewsResponse
    /\ usageResponse = NoUsageResponse
    /\ analysedAt = <<>>
    /\ InitService

\* The analyzer, called directly, under every configuration of the switch and the key
Init ==
    /\ InitClock
    /\ InitLimiters
    /\ rlRoute = "news"
    /\ disableGemini \in BOOLEAN
    /\ apiKey \in BOOLEAN
    /\ InitGemini
    /\ InitNews
    /\ NoPureCall

StartCall ==
    /\ \E articles \in Batches : AnalyzeStart(articles)
    /\ UNCHANGED <<burstVars, sweepVars, analysisVars, serviceVars, pureVars, usageVars, timeVars, rlVars, disableGemini, apiKey, newsVars>>

ResumeCall ==
    /\ \E callNo \in DOMAIN calls :
          \E response \in Responses(callNo, Len(calls[callNo].prompt)) :
              AnalyzeResume(callNo, response)
    /\ UNCHANGED <<burstVars, sweepVars, analysisVars, serviceVars, pureVars, usageVars, timeVars, rlVars, disableGemini, apiKey, newsVars>>

\* The clock advances by 1 ms or to 1 ms before the end of a cache duration
Steps == {1, SENTIMENT_CACHE_DURATION - 1, ARTICLE_CACHE_DURATION - 1}

Tick ==
    /\ ticks < MaxTicks
    /\ \E d \in Steps : clock' = clock + d
    /\ ticks' = ticks + 1
    /\ UNCHANGED <<rlVars, geminiVars, newsVars, usageVars, pureVars, burstVars, sweepVars, analysisVars, serviceVars>>

Next == StartCall \/ ResumeCall \/ Tick

Spec == Init /\ [][Next]_vars

\* The limiters alone, as shipped (the model switched off)
InitRL ==
    /\ InitClock
    /\ InitLimiters
    /\ rlRoute \in {"news", "analysis"}
    /\ disableGemini = TRUE
    /\ apiKey = FALSE
    /\ InitGemini
    /\ InitNews
    /\ NoPureCall

NewsRateLimitCheck ==
    /\ \E ip \in IPs : RLCheck("news", ip)
    /\ UNCHANGED <<burstVars, sweepVars, analysisVars, serviceVars, pureVars, usageVars, timeVars, geminiVars, newsVars>>

AnalysisRateLimitCheck ==
    /\ \E ip \in IPs : RLCheck("analysis", ip)
    /\ UNCHANGED <<burstVars, sweepVars, analysisVars, serviceVars, pureVars, usageVars, timeVars, geminiVars, newsVars>>

\* The clock advances by 1 ms or by the window of the exercised limiter
RLSteps == {1, IF rlRoute = "news" THEN RATE_LIMIT_WINDOW ELSE ANALYSIS_RATE_LIMIT_WINDOW}

RLTick ==
    /\ ticks < MaxTicks
    /\ \E d \in RLSteps : clock' = clock + d
    /\ ticks' = ticks + 1
    /\ UNCHANGED <<rlVars, geminiVars, newsVars, usageVars, pureVars, burstVars, sweepVars, analysisVars, serviceVars>>

RLNext == NewsRateLimitCheck \/ AnalysisRateLimitCheck \/ RLTick

SpecRL == InitRL /\ [][RLNext]_vars

\* The news route with the key configured, under both settings of the switch
InitNewsRoute ==
    /\ InitClock
    /\ InitLimiters
    /\ rlRoute = "news"
    /\ disableGemini \in BOOLEAN
    /\ apiKey = TRUE
    /\ InitGemini
    /\ usageStats.lastResetDate = PacificDate(StartTime)
    /\ InitNews
    /\ NoPureCall

\* The clients of the route's behaviours
NewsClients == {"ip1"}

\* What getFinancialNews() returns: the articles of the sources, or none when every
\* source failed (it catches every error, so the route's outer catch block is not
\* reached)
NewsLists == {<<>>, <<ArtBB>>, <<ArtBB, ArtLong>>}

\* What the model answers to a prompt of k articles, in the route's behaviours
NewsResponses(callNo, k) ==
    {response \in Responses(callNo, k) :
        \/ response.kind = "error" /\ response.error = NetworkError
        \/ response.kind = "array" /\ Len(response.items) = k /\ response.items # <<Null>>}

NewsRequest == \E ip \in NewsClients : NewsGetStart(ip)

NewsFetchReturns ==
    \E id \in DOMAIN newsRequests : \E articles \in NewsLists : NewsFetched(id, articles)

NewsModelAnswers ==
    \E id \in DOMAIN newsRequests :
        /\ newsRequests[id].stage = "analyzing"
        /\ \E response \in NewsResponses(newsRequests[id].callNo,
                                         Len(calls[newsRequests[id].callNo].prompt)) :
               NewsAnalysed(id, response)

\* The clock advances by the sentiment interval or by the cache duration
NewsSteps == {SENTIMENT_UPDATE_INTERVAL, CACHE_DURATION}

NewsTick ==
    /\ ticks < MaxTicks
    /\ \E d \in NewsSteps : clock' = clock + d
    /\ ticks' = ticks + 1
    /\ UNCHANGED <<rlVars, geminiVars, newsVars, usageVars, pureVars, burstVars, sweepVars, analysisVars, serviceVars>>

NewsNext == NewsRequest \/ NewsFetchReturns \/ NewsModelAnswers \/ NewsTick

SpecNews == InitNewsRoute /\ [][NewsNext]_vars

\* The usage tracker under the analyzer and the gemini-usage route, with the key
\* configured, on a server whose own time zone is UTC or Pacific time
InitUsage ==
    /\ InitClock
    /\ InitLimiters
    /\ rlRoute = "news"
    /\ disableGemini \in BOOLEAN
    /\ apiKey = TRUE
    /\ InitGemini
    /\ InitNews
    /\ NoPureCall

\* The lists analysed in these behaviours
UsageBatches == {<<ArtBB>>, <<ArtBB, ArtLong>>}

UsageRequest == UsageGet

UsageStartCall ==
    /\ \E articles \in UsageBatches : AnalyzeStart(articles)
    /\ UNCHANGED <<burstVars, sweepVars, analysisVars, serviceVars, pureVars, usageVars, timeVars, rlVars, disableGemini, apiKey, newsVars>>

UsageModelAnswers ==
    /\ \E callNo \in DOMAIN calls :
          \E response \in Responses(callNo, Len(calls[callNo].prompt)) :
              AnalyzeResume(callNo, response)
    /\ UNCHANGED <<burstVars, sweepVars, analysisVars, serviceVars, pureVars, usageVars, timeVars, rlVars, disableGemini, apiKey, newsVars>>

\* Midnight in Los Angeles is 08:00 UTC: the clock advances by 1 ms, to 1 ms before
\* the first Pacific midnight, or by a day
UsageSteps == {1, 8 * 60 * 60 * 1000 - 1, DAY}

UsageTick ==
    /\ ticks < MaxTicks
    /\ \E d \in UsageSteps : clock' = clock + d
    /\ ticks' = ticks + 1
    /\ UNCHANGED <<rlVars, geminiVars, newsVars, usageVars, pureVars, burstVars, sweepVars, analysisVars, serviceVars>>

UsageNext == UsageRequest \/ UsageStartCall \/ UsageModelAnswers \/ UsageTick

SpecUsage == InitUsage /\ [][UsageNext]_vars

\* calculateOverallSentiment alone: lists of at most MaxArticles articles, each unrated
\* or rated with one of the labels and a confidence (in hundredths) between 0 and 1
ConfidenceLevels == {0, 30, 50, 100}

ArticleSentiments ==
    {Undefined} \cup {[sentiment |-> label, confidence |-> c, summary |-> <<"s">>] :
                         label \in {"positive", "negative", "neutral"}, c \in ConfidenceLevels}

SentimentLists == UNION {[1..n -> ArticleSentiments] : n \in 0..MaxArticles}

InitOverall ==
    /\ InitClock
    /\ InitLimiters
    /\ rlRoute = "news"
    /\ disableGemini = TRUE
    /\ apiKey = FALSE
    /\ InitGemini
    /\ usageStats.lastResetDate = PacificDate(StartTime)
    /\ InitNews
    /\ pureArgs \in SentimentLists
    /\ pureResult = <<>>

OverallCall ==
    /\ pureResult = <<>>
    /\ pureResult' = <<calculateOverallSentiment(pureArgs)>>
    /\ UNCHANGED <<pureArgs, timeVars, rlVars, geminiVars, newsVars, usageVars, burstVars, sweepVars, analysisVars, serviceVars>>

SpecOverall == InitOverall /\ [][OverallCall]_vars

\* generateContentHash alone: lists of at most MaxPairs pairs with titles of at most
\* MaxTitle characters, each list together with a permutation of it
Titles == UNION {[1..n -> {CodeUnit.A, CodeUnit.B, CodeUnit.a}] : n \in 1..MaxTitle}

Pairs == {[title |-> t, summary |-> <<CodeUnit.x>>] : t \in Titles}

PairLists == UNION {[1..n -> Pairs] : n \in 0..MaxPairs}

Permuted(list) ==
    {[i \in 1..Len(list) |-> list[p[i]]] : p \in Permutations(1..Len(list))}

InitHash ==
    /\ InitClock
    /\ InitLimiters
    /\ rlRoute = "news"
    /\ disableGemini = TRUE
    /\ apiKey = FALSE
    /\ InitGemini
    /\ usageStats.lastResetDate = PacificDate(StartTime)
    /\ InitNews
    /\ pureArgs \in UNION {{<<list, permuted>> : permuted \in Permuted(list)} : list \in PairLists}
    /\ pureResult = <<>>

\* The key of the list, of the list again, and of the permuted list
HashCall ==
    /\ pureResult = <<>>
    /\ pureResult' = <<generateContentHash(pureArgs[1]), generateContentHash(pureArgs[1]),
                       generateContentHash(pureArgs[2])>>
    /\ UNCHANGED <<pureArgs, timeVars, rlVars, geminiVars, newsVars, usageVars, burstVars, sweepVars, analysisVars, serviceVars>>

SpecHash == InitHash /\ [][HashCall]_vars

\* One limiter and one client key, with the instants of its checks recorded
InitBurst ==
    /\ InitClock
    /\ InitLimiters
    /\ rlRoute \in {"news", "analysis"}
    /\ disableGemini = TRUE
    /\ apiKey = FALSE
    /\ InitGemini
    /\ usageStats.lastResetDate = PacificDate(StartTime)
    /\ InitNews
    /\ NoPureCall

NoChecksAt == [made |-> 0, allowed |-> 0]

ChecksAt(log, now) == IF now \in DOMAIN log THEN log[now] ELSE NoChecksAt

BurstCheck ==
    /\ \E limiter \in {"news", "analysis"} : RLCheck(limiter, "ip1")
    /\ rlChecks' =
           MapSet(rlChecks, clock,
                  [made |-> ChecksAt(rlChecks, clock).made + 1,
                   allowed |-> ChecksAt(rlChecks, clock).allowed
                                   + (IF rlLast'.result.allowed THEN 1 ELSE 0)])
    /\ UNCHANGED <<timeVars, geminiVars, newsVars, usageVars, pureVars, sweepVars, analysisVars, serviceVars>>

BurstTick ==
    /\ ticks < MaxTicks
    /\ \E d \in RLSteps : clock' = clock + d
    /\ ticks' = ticks + 1
    /\ UNCHANGED <<rlVars, geminiVars, newsVars, usageVars, pureVars, burstVars, sweepVars, analysisVars, serviceVars>>

BurstNext == BurstCheck \/ BurstTick

SpecBurst == InitBurst /\ [][BurstNext]_vars

\* The analyzer with the periodic sweep, the model available, and the caches as they
\* would be without the sweep kept beside the real ones
InitSweep ==
    /\ InitClock
    /\ InitLimiters
    /\ rlRoute = "news"
    /\ disableGemini = FALSE
    /\ apiKey = TRUE
    /\ InitGemini
    /\ usageStats.lastResetDate = PacificDate(StartTime)
    /\ InitNews
    /\ NoPureCall

\* The lists analysed in these behaviours: they have the same content key
SweepBatches == {<<ArtLong>>, <<ArtAa, ArtBB>>}

\* The map kept beside `cache` after a step that left `after` in place of `cache`:
\* every entry the step set, and the kept entries otherwise
Unswept(kept, cache, after) ==
    [key \in DOMAIN kept \cup DOMAIN after |->
        IF key \in DOMAIN after /\ (key \notin DOMAIN cache \/ after[key] # cache[key])
        THEN after[key]
        ELSE IF key \in DOMAIN kept THEN kept[key] ELSE after[key]]

UnsweptAfterStep ==
    unswept' = [bulk |-> Unswept(unswept.bulk, sentimentCache, sentimentCache'),
                article |-> Unswept(unswept.article, individualArticleCache,
                                    individualArticleCache')]

SweepStartCall ==
    /\ \E articles \in SweepBatches : AnalyzeStart(articles)
    /\ UnsweptAfterStep
    /\ UNCHANGED <<burstVars, analysisVars, serviceVars, pureVars, usageVars, timeVars, rlVars, disableGemini, apiKey, newsVars>>

SweepResumeCall ==
    /\ \E callNo \in DOMAIN calls :
          \E response \in NewsResponses(callNo, Len(calls[callNo].prompt)) :
              AnalyzeResume(callNo, response)
    /\ UnsweptAfterStep
    /\ UNCHANGED <<burstVars, analysisVars, serviceVars, pureVars, usageVars, timeVars, rlVars, disableGemini, apiKey, newsVars>>

\* The interval callback of cleanupSentimentCache
Sweep ==
    LET swept == cleanupSentimentCache(sentimentCache, individualArticleCache, clock) IN
    /\ sentimentCache' = swept.bulk
    /\ individualArticleCache' = swept.article
    /\ UNCHANGED <<disableGemini, apiKey, usageStats, calls, callsMade, returned,
                   modelInvocations>>
    /\ UNCHANGED <<timeVars, rlVars, newsVars, usageVars, pureVars, burstVars, sweepVars, analysisVars, serviceVars>>

\* The clock advances by 1 ms or by a cache duration
SweepSteps == {1, SENTIMENT_CACHE_DURATION, ARTICLE_CACHE_DURATION}

SweepTick ==
    /\ ticks < MaxTicks
    /\ \E d \in SweepSteps : clock' = clock + d
    /\ ticks' = ticks + 1
    /\ UNCHANGED <<rlVars, geminiVars, newsVars, usageVars, pureVars, burstVars, sweepVars, analysisVars, serviceVars>>

SweepNext == SweepStartCall \/ SweepResumeCall \/ Sweep \/ SweepTick

SpecSweep == InitSweep /\ [][SweepNext]_vars

\* The analyzer with the sweep, on lists whose keys are all distinct, the model
\* answering in every way
DistinctBatches == {<<>>, <<ArtBB>>, <<ArtLong>>, <<ArtBB, ArtLong>>}

DistinctStartCall ==
    /\ \E articles \in DistinctBatches : AnalyzeStart(articles)
    /\ UnsweptAfterStep
    /\ UNCHANGED <<burstVars, analysisVars, serviceVars, pureVars, usageVars, timeVars, rlVars, disableGemini, apiKey, newsVars>>

DistinctResumeCall ==
    /\ \E callNo \in DOMAIN calls :
          \E response \in Responses(callNo, Len(calls[callNo].prompt)) :
              AnalyzeResume(callNo, response)
    /\ UnsweptAfterStep
    /\ UNCHANGED <<burstVars, analysisVars, serviceVars, pureVars, usageVars, timeVars, rlVars, disableGemini, apiKey, newsVars>>

DistinctNext == DistinctStartCall \/ DistinctResumeCall \/ Sweep \/ SweepTick

SpecDistinct == InitSweep /\ [][DistinctNext]_vars

\* The data service with its timers and the admin API
serviceFrame == <<timeVars, rlVars, geminiVars, newsVars, usageVars, pureVars, burstVars,
                  sweepVars, analysisVars>>

FetchOutcomes(kind) == IF kind = "stocks" THEN {"ok", "failed"} ELSE {"ok", "plain", "failed"}

ServiceStart == startPeriodicUpdates /\ UNCHANGED serviceFrame

ServiceStop == stopPeriodicUpdates /\ UNCHANGED serviceFrame

ServiceTimer ==
    /\ \E index \in 1..Len(updateIntervals) : IntervalFires(index)
    /\ UNCHANGED serviceFrame

ServiceAdminPost == (updateStocks \/ updateNews \/ updateAll) /\ UNCHANGED serviceFrame

ServiceFetchSettles ==
    /\ \E id \in 1..Len(updates) :
          \E outcome \in FetchOutcomes(updates[id].kind) : FetchSettles(id, outcome)
    /\ UNCHANGED serviceFrame

ServiceRetry ==
    /\ \E id \in 1..Len(updates) : RetryDelayEnds(id)
    /\ UNCHANGED serviceFrame

ServiceNext ==
    \/ ServiceStart
    \/ ServiceStop
    \/ ServiceTimer
    \/ ServiceAdminPost
    \/ ServiceFetchSettles
    \/ ServiceRetry

\* The server as loaded, the rest of it as in InitSweep
SpecService == InitSweep /\ [][ServiceNext]_vars

\* Pending promises settle and timeouts fire
SpecServiceFair ==
    SpecService /\ WF_vars(ServiceFetchSettles) /\ WF_vars(ServiceRetry)


-----------------------------------------------------------------------------
(* Properties of analyzeBulkSentiment *)

\* The article has a per-item entry that has not expired
ValidArticleEntry(a) ==
    LET key == generateArticleHash(a) IN
    /\ key \in DOMAIN individualArticleCache
    /\ clock - individualArticleCache[key].timestamp < ARTICLE_CACHE_DURATION

\* The articles of the list without such an entry, in order
UncachedOf(articles) ==
    LET NotValid(a) == ~ValidArticleEntry(a) IN SelectSeq(articles, NotValid)

\* The batch cache has an entry for the list that has not expired
ValidBatchEntry(list) ==
    LET key == generateContentHash(list) IN
    /\ key \in DOMAIN sentimentCache
    /\ clock - sentimentCache[key].timestamp < SENTIMENT_CACHE_DURATION

\* This step enters analyzeBulkSentiment; the invocation it enters
Enters == callsMade' = callsMade + 1

Entered == IF (callsMade + 1) \in DOMAIN calls' THEN calls'[callsMade + 1] ELSE returned'

\* This step resumes invocation n with the answer of the model
Resumes(n) == n \in DOMAIN calls /\ n \notin DOMAIN calls'

\* The keys whose per-item entry this step sets
ArticleKeysSet ==
    {key \in DOMAIN individualArticleCache' :
        \/ key \notin DOMAIN individualArticleCache
        \/ individualArticleCache'[key] # individualArticleCache[key]}

\* The keys whose batch entry this step sets
ContentKeysSet ==
    {key \in DOMAIN sentimentCache' :
        \/ key \notin DOMAIN sentimentCache
        \/ sentimentCache'[key] # sentimentCache[key]}

\* The number of uncached articles among the first i of the returned invocation
Rank(i) == Cardinality({j \in 1..i : ~Truthy(returned.cachedResults[j])})

\* C1: a batch whose articles all have a valid per-item entry makes no model call,
\* changes no usage counter and returns the cached sentiments in input order,
\* whether or not the model is available.
C1_FullCacheNoModelCall ==
    [][(Enters /\ \A i \in 1..Len(Entered.articles) : ValidArticleEntry(Entered.articles[i]))
        => /\ modelInvocations' = modelInvocations
           /\ calls' = calls
           /\ usageStats' = usageStats
           /\ returned'.callNo = callsMade + 1
           /\ ~returned'.threw
           /\ returned'.result =
                  [i \in 1..Len(returned'.articles) |->
                      individualArticleCache[generateArticleHash(returned'.articles[i])].sentiment]
      ]_vars

\* C1 witness: with the model available, a batch of two cached articles returned
C1_Witness ==
    /\ ModelAvailable
    /\ returned.path = "complete-cache"
    /\ Len(returned.articles) = 2

\* C2: every return of analyzeBulkSentiment has one defined sentiment per input
\* article: the cached one where the article was cached, otherwise the j-th newly
\* obtained one for the j-th uncached article.
C2_OneSentimentPerArticle ==
    returned.callNo > 0 =>
        /\ Len(returned.result) = Len(returned.articles)
        /\ \A i \in 1..Len(returned.articles) :
              /\ Truthy(returned.result[i])
              /\ Truthy(returned.cachedResults[i])
                    => returned.result[i] = returned.cachedResults[i]
              /\ (~Truthy(returned.cachedResults[i])
                    /\ returned.path \in {"bulk-hit", "api-success", "api-failure"})
                    => returned.result[i] = At(returned.newSentiments, Rank(i))

\* C3 as claimed: a successful model call for k pairwise distinct uncached articles
\* writes exactly k per-item entries, one per uncached article.
C3_ExactlyKEntries ==
    [][\A n \in DOMAIN calls :
          (Resumes(n) /\ returned'.path = "api-success")
              => LET call == calls[n]
                     keys == {generateArticleHash(call.prompt[j]) : j \in 1..Len(call.prompt)}
                 IN  Cardinality({key \in DOMAIN individualArticleCache' :
                                     /\ key \in keys
                                     /\ individualArticleCache'[key].writtenAt = clock})
                         = Len(call.prompt)
      ]_vars

\* C3 amended: with the model available, k > 0 uncached articles and no valid batch
\* entry for them, the invocation calls the model once, with exactly the uncached
\* articles; a successful answer sets the per-item entry at the key of each of those
\* articles (k entries only when the keys are pairwise distinct: articles of equal
\* key share one entry) and the one batch entry keyed on them, and changes no other
\* entry, those of the cached articles included.
C3_OneCallForUncached ==
    [][/\ (/\ Enters
           /\ ModelAvailable
           /\ Len(UncachedOf(Entered.articles)) > 0
           /\ ~ValidBatchEntry(UncachedOf(Entered.articles)))
          => /\ modelInvocations' = modelInvocations + 1
             /\ (callsMade + 1) \in DOMAIN calls'
             /\ Entered.prompt = UncachedOf(Entered.articles)
             /\ individualArticleCache' = individualArticleCache
             /\ sentimentCache' = sentimentCache
       /\ \A n \in DOMAIN calls :
            (Resumes(n) /\ returned'.path = "api-success")
              => LET call == calls[n]
                     keys == {generateArticleHash(call.prompt[j]) : j \in 1..Len(call.prompt)}
                     contentKey == generateContentHash(call.prompt)
                 IN  /\ modelInvocations' = modelInvocations
                     /\ Len(returned'.newSentiments) = Len(call.prompt)
                     /\ ArticleKeysSet \subseteq keys
                     /\ \A key \in keys :
                           /\ key \in DOMAIN individualArticleCache'
                           /\ individualArticleCache'[key].timestamp = clock
                           /\ \E j \in 1..Len(call.prompt) :
                                 /\ generateArticleHash(call.prompt[j]) = key
                                 /\ individualArticleCache'[key].sentiment
                                        = returned'.newSentiments[j]
                     /\ ContentKeysSet \subseteq {contentKey}
                     /\ contentKey \in DOMAIN sentimentCache'
                     /\ sentimentCache'[contentKey].data = returned'.newSentiments
                     /\ \A i \in 1..Len(call.articles) :
                           Truthy(call.cachedResults[i])
                              => generateArticleHash(call.articles[i]) \notin ArticleKeysSet
      ]_vars

\* C3 witness: one of two articles was cached, the other analysed by the model
C3_Witness ==
    /\ returned.path = "api-success"
    /\ Len(returned.articles) = 2
    /\ Len(returned.prompt) = 1
    /\ returned.response.kind = "array"
    /\ Len(returned.response.items) = 1

\* The merge of the cached sentiments of an invocation with the given new ones
SlotsMerged(call, result, newSentiments) ==
    /\ Len(result) = Len(call.articles)
    /\ \A i \in 1..Len(call.articles) :
          IF Truthy(call.cachedResults[i])
          THEN result[i] = call.cachedResults[i]
          ELSE result[i] =
                  newSentiments[Cardinality({j \in 1..i : ~Truthy(call.cachedResults[j])})]

\* C4: when the model call throws or its answer cannot be parsed, the invocation
\* returns normally: every uncached article gets a neutral placeholder of confidence 0,
\* every cached article keeps its cached sentiment, and exactly one failure is counted.
C4_ModelFailureDegrades ==
    [][\A n \in DOMAIN calls :
          (Resumes(n) /\ returned'.response.kind \in {"error", "invalid"})
              => /\ returned'.callNo = n
                 /\ ~returned'.threw
                 /\ Len(returned'.newSentiments) = Len(calls[n].prompt)
                 /\ \A j \in 1..Len(calls[n].prompt) :
                       /\ returned'.newSentiments[j].sentiment = "neutral"
                       /\ returned'.newSentiments[j].confidence = 0
                 /\ SlotsMerged(calls[n], returned'.result, returned'.newSentiments)
                 /\ usageStats'.failedCalls = usageStats.failedCalls + 1
                 /\ usageStats'.quotaErrors + usageStats'.rateLimitErrors
                        <= usageStats.quotaErrors + usageStats.rateLimitErrors + 1
                 /\ usageStats'.totalCalls = usageStats.totalCalls
      ]_vars

\* C4 witness: a call for one of two articles failed on an answer that is not JSON
C4_Witness ==
    /\ returned.path = "api-failure"
    /\ returned.response.kind = "invalid"
    /\ Len(returned.articles) = 2
    /\ Len(returned.prompt) = 1
    /\ usageStats.failedCalls = 1

\* C5 as claimed: when the model answers a JSON array of m < k elements, the first m
\* uncached slots receive the elements as they are and the other k - m the placeholder.
C5_ShortArrayAsIs ==
    [][\A n \in DOMAIN calls :
          (/\ Resumes(n)
           /\ returned'.response.kind = "array"
           /\ Len(returned'.response.items) < Len(calls[n].prompt))
              => LET items == returned'.response.items IN
                 /\ ~returned'.threw
                 /\ Len(returned'.newSentiments) = Len(calls[n].prompt)
                 /\ \A j \in 1..Len(calls[n].prompt) :
                       returned'.newSentiments[j] =
                           IF j <= Len(items) THEN items[j]
                           ELSE Neutral("Unable to analyze sentiment")
                 /\ SlotsMerged(calls[n], returned'.result, returned'.newSentiments)
      ]_vars

\* C5 amended: when the model answers a JSON array of m < k elements, each of the
\* first m uncached slots receives its element as it is when the element is truthy
\* and the placeholder when it is falsy (null); the other k - m slots receive the
\* neutral 'Unable to analyze sentiment' placeholder of confidence 0; the invocation
\* returns normally.
C5_ShortArrayPadded ==
    [][\A n \in DOMAIN calls :
          (/\ Resumes(n)
           /\ returned'.response.kind = "array"
           /\ Len(returned'.response.items) < Len(calls[n].prompt))
              => LET items == returned'.response.items IN
                 /\ ~returned'.threw
                 /\ returned'.path = "api-success"
                 /\ Len(returned'.newSentiments) = Len(calls[n].prompt)
                 /\ \A j \in 1..Len(calls[n].prompt) :
                       returned'.newSentiments[j] =
                           IF j <= Len(items) /\ items[j] # Null THEN items[j]
                           ELSE [sentiment |-> "neutral", confidence |-> 0,
                                 summary |-> <<"Unable to analyze sentiment">>]
                 /\ SlotsMerged(calls[n], returned'.result, returned'.newSentiments)
      ]_vars

\* C5 witness: the model answered one sentiment for a prompt of two articles
C5_Witness ==
    /\ returned.path = "api-success"
    /\ returned.response.kind = "array"
    /\ Len(returned.prompt) = 2
    /\ Len(returned.response.items) = 1
    /\ returned.response.items[1] # Null
    /\ returned.result[1] = returned.response.items[1]
    /\ returned.result[2].confidence = 0

\* C6: with the model unavailable and an article uncached, the invocation returns
\* normally: cached slots keep their sentiment, uncached slots get a neutral
\* placeholder of confidence 0 with a reason, no model call is made, and the caches
\* and the usage counters are unchanged.
C6_UnavailableModelPlaceholders ==
    [][(/\ Enters
        /\ ~(apiKey /\ ~disableGemini)
        /\ \E i \in 1..Len(Entered.articles) : ~ValidArticleEntry(Entered.articles[i]))
          => /\ returned'.callNo = callsMade + 1
             /\ ~returned'.threw
             /\ Len(returned'.result) = Len(returned'.articles)
             /\ \A i \in 1..Len(returned'.articles) :
                   IF ValidArticleEntry(returned'.articles[i])
                   THEN returned'.result[i] =
                           individualArticleCache[generateArticleHash(returned'.articles[i])].sentiment
                   ELSE /\ returned'.result[i].sentiment = "neutral"
                        /\ returned'.result[i].confidence = 0
                        /\ returned'.result[i].summary \in
                              {<<"Gemini API disabled - enable to analyze this article">>,
                               <<"API key not configured">>}
             /\ modelInvocations' = modelInvocations
             /\ calls' = calls
             /\ sentimentCache' = sentimentCache
             /\ individualArticleCache' = individualArticleCache
             /\ usageStats' = usageStats
      ]_vars

\* C6 witness: an invocation for two articles returned with the model switched off
\* although the key is configured
C6_Witness ==
    /\ returned.path = "disabled"
    /\ Len(returned.articles) = 2
    /\ apiKey /\ disableGemini

\* The per-item lookups of an entering invocation use an entry iff it was written
\* less than 24 hours before
PerItemLookupByAge ==
    Enters =>
        \A i \in 1..Len(Entered.articles) :
            LET key == generateArticleHash(Entered.articles[i]) IN
            key \in DOMAIN individualArticleCache =>
                (Entered.cachedResults[i] = individualArticleCache[key].sentiment
                    <=> clock - individualArticleCache[key].writtenAt < ARTICLE_CACHE_DURATION)

\* The batch lookup of an entering invocation uses an entry iff it was written less
\* than 60 minutes before
BatchLookupByAge ==
    (/\ Enters
     /\ ModelAvailable
     /\ Len(UncachedOf(Entered.articles)) > 0)
        => LET key == generateContentHash(UncachedOf(Entered.articles)) IN
           key \in DOMAIN sentimentCache =>
               ((/\ Entered.path = "bulk-hit"
                 /\ Entered.newSentiments = sentimentCache[key].data)
                    <=> clock - sentimentCache[key].writtenAt < SENTIMENT_CACHE_DURATION)

\* The per-item half of C7
C7_PerItemUsedIffYoungerThanTTL == [][PerItemLookupByAge]_vars

\* C7: an entry written at t0 is used by a lookup at t iff t - t0 < TTL of its cache
\* (24 hours per item, 60 minutes per batch), swept or not.
C7_EntryUsedIffYoungerThanTTL == [][PerItemLookupByAge /\ BatchLookupByAge]_vars

\* C17: when the model call fails, the call adds no entry to the per-item cache and no
\* entry to the batch cache, so the articles of its prompt have no more valid entries
\* afterwards than before
C17_FailureLeavesCachesAlone ==
    [][\A n \in DOMAIN calls :
          (Resumes(n) /\ returned'.path = "api-failure")
              => /\ individualArticleCache' = individualArticleCache
                 /\ sentimentCache' = sentimentCache
                 /\ \A i \in 1..Len(calls[n].prompt) :
                        LET key == generateArticleHash(calls[n].prompt[i]) IN
                        key \in DOMAIN individualArticleCache'
                            => key \in DOMAIN individualArticleCache]_vars

\* C18: every model call is counted in totalCalls before it is made and as exactly one
\* outcome afterwards, so successfulCalls + failedCalls never exceeds totalCalls and
\* equals it whenever no call awaits the model
C18_OneOutcomePerCall ==
    /\ usageStats.successfulCalls + usageStats.failedCalls <= usageStats.totalCalls
    /\ usageStats.totalCalls = modelInvocations
    /\ DOMAIN calls = {}
           => usageStats.successfulCalls + usageStats.failedCalls = usageStats.totalCalls

\* C19: when some articles of the batch are uncached, the model is available and the
\* batch cache has a valid entry at the key of exactly the uncached articles, the
\* invocation makes no model call, changes no usage counter and returns, for the j-th
\* uncached article, the j-th result of that entry
C19_BatchEntryReused ==
    [][LET uncachedArticleList == UncachedOf(Entered.articles) IN
       (Enters /\ ModelAvailable /\ uncachedArticleList # <<>>
               /\ ValidBatchEntry(uncachedArticleList))
        => LET data == sentimentCache[generateContentHash(uncachedArticleList)].data
               articles == returned'.articles
           IN  /\ modelInvocations' = modelInvocations
               /\ calls' = calls
               /\ usageStats' = usageStats
               /\ sentimentCache' = sentimentCache
               /\ returned'.callNo = callsMade + 1
               /\ ~returned'.threw
               /\ Len(returned'.result) = Len(articles)
               /\ \A i \in 1..Len(articles) :
                      returned'.result[i] =
                          IF ValidArticleEntry(articles[i])
                          THEN individualArticleCache[generateArticleHash(articles[i])].sentiment
                          ELSE At(data, Cardinality({j \in 1..i : ~ValidArticleEntry(articles[j])}))
      ]_vars

\* A single uncached article was answered from the batch entry that an earlier
\* invocation for two other articles had stored under the same key, after one model
\* call in all
C19_Witness ==
    /\ ModelAvailable
    /\ returned.path = "bulk-hit"
    /\ returned.callNo = 2
    /\ modelInvocations = 1
    /\ returned.articles = <<ArtLong>>
    /\ Truthy(returned.result[1])
    /\ usageStats.totalCalls = 1

\* The instant at which the invocation that returned last stored its new sentiments
ReturnedAt == individualArticleCache[generateArticleHash(returned.prompt[1])].writtenAt

\* C22: two invocations for the same uncached batch that overlap can both call the
\* model (the witness below); an invocation for that batch that starts after the other
\* one has completed successfully, less than the batch duration ago, calls the model
\* zero times
C22_NoCallAfterCompletion ==
    [][(/\ Enters
        /\ ModelAvailable
        /\ returned.path = "api-success"
        /\ Entered.articles = returned.prompt
        /\ clock - ReturnedAt < SENTIMENT_CACHE_DURATION)
        => /\ modelInvocations' = modelInvocations
           /\ calls' = calls
           /\ usageStats' = usageStats
           /\ returned'.callNo = callsMade + 1
           /\ returned'.result =
                  [i \in 1..Len(returned.prompt) |->
                      individualArticleCache[generateArticleHash(returned.prompt[i])].sentiment]
      ]_vars

\* Two invocations for the same two uncached articles await the model at once, the
\* second started 1 ms after the first: two model calls for one batch key
C22_Witness ==
    /\ DOMAIN calls = {1, 2}
    /\ calls[1].prompt = <<ArtBB, ArtLong>>
    /\ calls[2].prompt = calls[1].prompt
    /\ calls[2].contentKey = calls[1].contentKey
    /\ calls[2].now = calls[1].now + 1
    /\ modelInvocations = 2
    /\ usageStats.totalCalls = 2

\* The lists a lookup may be made for
SweepLookups == SweepBatches \cup {<<ArtAa>>, <<ArtBB>>, <<ArtBB, ArtAa>>}

\* Every entry of `cache` is the entry `kept` has under the same key
SubMap(cache, kept) ==
    /\ DOMAIN cache \subseteq DOMAIN kept
    /\ \A key \in DOMAIN cache : cache[key] = kept[key]

\* C23: the sweep is only an optimization: the swept caches hold nothing but entries
\* of the caches never swept, unchanged; every entry the sweep has removed is one a
\* lookup at this instant treats as absent; so every lookup made now (per-item and
\* batch) answers the same on the swept caches as on the caches never swept, and
\* results and model calls are those of the behaviour without sweeps
C23_SweepOnlyRemovesExpired ==
    /\ SubMap(sentimentCache, unswept.bulk)
    /\ SubMap(individualArticleCache, unswept.article)
    /\ \A key \in DOMAIN unswept.bulk \ DOMAIN sentimentCache :
          ~BulkCacheHit(unswept.bulk, key, clock)
    /\ \A key \in DOMAIN unswept.article \ DOMAIN individualArticleCache :
          ~ArticleCacheHit(unswept.article, key, clock)
    /\ \A list \in SweepLookups :
          /\ getCachedArticleSentiments(individualArticleCache, list, clock)
                = getCachedArticleSentiments(unswept.article, list, clock)
          /\ BulkCacheHit(sentimentCache, ContentKey[list], clock)
                <=> BulkCacheHit(unswept.bulk, ContentKey[list], clock)
          /\ BulkCacheHit(sentimentCache, ContentKey[list], clock)
                => sentimentCache[ContentKey[list]] = unswept.bulk[ContentKey[list]]

\* A sweep removed the entries of the first call, and a later call was answered by
\* the model and returned
C23_Witness ==
    /\ generateArticleHash(ArtLong) \in DOMAIN unswept.article \ DOMAIN individualArticleCache
    /\ returned.callNo = 2
    /\ returned.path = "api-success"
    /\ returned.prompt = <<ArtAa, ArtBB>>
    /\ modelInvocations = 2

\* C29: with distinct keys for distinct lists and no clearAllCaches, a valid batch
\* entry under the key of a list comes with a valid per-item entry for every article
\* of the list, and no call takes the batch-cache-hit branch
C29_BatchEntryImpliesItemEntries ==
    /\ [](\A list \in DistinctBatches :
             ValidBatchEntry(list) => \A i \in 1..Len(list) : ValidArticleEntry(list[i]))
    /\ [][Enters => Entered.path # "bulk-hit"]_vars

\* Distinct lists have distinct keys, and so have distinct articles
DistinctKeys ==
    /\ \A list, other \in DistinctBatches :
          generateContentHash(list) = generateContentHash(other) => list = other
    /\ generateArticleHash(ArtBB) # generateArticleHash(ArtLong)

\* Keys are distinct, the batch entry of a two-article list is valid, and a second
\* call for that list was answered from the per-item entries
C29_Witness ==
    /\ DistinctKeys
    /\ ValidBatchEntry(<<ArtBB, ArtLong>>)
    /\ returned.callNo = 2
    /\ returned.articles = <<ArtBB, ArtLong>>
    /\ returned.path = "complete-cache"
    /\ modelInvocations = 1

-----------------------------------------------------------------------------
(* Properties of the rate limiters *)

\* C8: for one client key of a limiter of maximum M, the n-th check of a window is
\* allowed with remaining M - n while n <= M and rejected with remaining 0 and the
\* window's unchanged reset time, leaving the record as it was, when n > M; the first
\* check at a time strictly after the reset time is allowed with remaining M - 1 and
\* opens a window of full length.
C8_FixedWindowSequence ==
    rlLast.limiter # "none" =>
        IF rlLast.newWindow
        THEN /\ rlLast.result = [allowed |-> TRUE, remaining |-> rlLast.max - 1,
                                 resetTime |-> rlLast.now + rlLast.window]
             /\ rlLast.after = [present |-> TRUE, count |-> 1,
                                resetTime |-> rlLast.now + rlLast.window]
        ELSE IF rlLast.nth <= rlLast.max
        THEN /\ rlLast.result = [allowed |-> TRUE, remaining |-> rlLast.max - rlLast.nth,
                                 resetTime |-> rlLast.windowEnd]
             /\ rlLast.after = [present |-> TRUE, count |-> rlLast.nth,
                                resetTime |-> rlLast.windowEnd]
        ELSE /\ rlLast.result = [allowed |-> FALSE, remaining |-> 0,
                                 resetTime |-> rlLast.windowEnd]
             /\ rlLast.before.resetTime = rlLast.windowEnd
             /\ rlLast.after = rlLast.before

\* C8 witness: a key of the news limiter whose window was used up and then rejected
\* a check opens a new window 1 ms after the reset time
C8_Witness ==
    /\ rlLast.limiter = "news"
    /\ rlLast.newWindow
    /\ rlLast.before.present
    /\ rlLast.before.count = RATE_LIMIT_MAX_REQUESTS
    /\ rlLast.now = rlLast.before.resetTime + 1
    /\ rlLast.result.allowed
    /\ rlLast.result.remaining = RATE_LIMIT_MAX_REQUESTS - 1

\* C9: every record either limiter stores has 1 <= count <= the limiter's maximum
\* (20 for news, 10 for analysis).
C9_CountWithinMax ==
    /\ \A key \in DOMAIN requestCounts :
          /\ 1 <= requestCounts[key].count
          /\ requestCounts[key].count <= 20
    /\ \A key \in DOMAIN analysisRequestCounts :
          /\ 1 <= analysisRequestCounts[key].count
          /\ analysisRequestCounts[key].count <= 10

\* C9 witness: the analysis limiter rejected the check after the tenth of a window
\* while the records of two clients are stored
C9_Witness ==
    /\ rlLast.limiter = "analysis"
    /\ ~rlLast.result.allowed
    /\ rlLast.nth = ANALYSIS_RATE_LIMIT_MAX_REQUESTS + 1
    /\ rlLast.after.count = ANALYSIS_RATE_LIMIT_MAX_REQUESTS
    /\ Cardinality(DOMAIN analysisRequestCounts) = 2

-----------------------------------------------------------------------------
(* Properties of the news route *)

\* C10: a request the news limiter rejects is answered with status 429 and has no
\* other effect: the client's record, the requests awaiting a fetch or an analysis,
\* the response cache, the sentiment caches and the usage counters stay as they were.
C10_RejectedRequestHasNoEffect ==
    [][(rlWindow' # rlWindow /\ ~rlLast'.result.allowed)
        => /\ rlLast'.limiter = "news"
           /\ lastResponse'.status = 429
           /\ lastResponse'.ip = rlLast'.ip
           /\ lastResponse'.rateLimitResult.resetTime = requestCounts[rlLast'.ip].resetTime
           /\ requestCounts' = requestCounts
           /\ newsRequests' = newsRequests
           /\ calls' = calls
           /\ callsMade' = callsMade
           /\ modelInvocations' = modelInvocations
           /\ cachedData' = cachedData
           /\ lastSentimentUpdate' = lastSentimentUpdate
           /\ sentimentCache' = sentimentCache
           /\ individualArticleCache' = individualArticleCache
           /\ usageStats' = usageStats
      ]_vars

\* C10 witness: a request was rejected with 429 while another request awaits the
\* model and the response cache is filled
C10_Witness ==
    /\ lastResponse.status = 429
    /\ ~rlLast.result.allowed
    /\ rlLast.before.count = RATE_LIMIT_MAX_REQUESTS
    /\ \E id \in DOMAIN newsRequests : newsRequests[id].stage = "analyzing"
    /\ cachedData.present
    /\ modelInvocations > 0


\* C16: an allowed request is answered successfully with a non-empty article list, and
\* the cached article list is non-empty, also when every news source failed or returned
\* nothing
C16_FallbackArticlesServed ==
    /\ lastResponse.status # 0 /\ lastResponse.rateLimitResult.allowed
           => lastResponse.status = 200
    /\ lastResponse.status = 200 => Len(lastResponse.articles) > 0
    /\ cachedData.present => Len(cachedData.articles) > 0

\* C24: any two calls of analyzeBulkSentiment made by the news route are at least
\* SENTIMENT_UPDATE_INTERVAL apart
C24_AnalysesIntervalApart ==
    \A i, j \in 1..Len(analysedAt) :
        i < j => analysedAt[j] - analysedAt[i] >= SENTIMENT_UPDATE_INTERVAL

-----------------------------------------------------------------------------
(* Properties of the data service *)

\* The update returned: after its write and the finally block, or at the early return
Returned(id) == updates[id].stage \in {"done", "skipped"}

\* The update fetched and wrote its result to the snapshot
Performed(id) == updates[id].stage = "done"

\* updateAll()'s Promise.all resolved
Completed(call) == Returned(call.stocks) /\ Returned(call.news)

\* C25: when an updateAll() started on an idle service completes, both updateStocks
\* and updateNews have fetched and written their result to the snapshot
C25_UpdateAllRefreshesBoth ==
    \A n \in 1..Len(updateAllCalls) :
        (updateAllCalls[n].idle /\ Completed(updateAllCalls[n]))
            => Performed(updateAllCalls[n].stocks) /\ Performed(updateAllCalls[n].news)

\* The update holds the flag: it is between its entry and its return
InProgress(id) ==
    id <= Len(updates) /\ updates[id].stage \in {"fetching", "waiting"}

StockUpdate(id) == id <= Len(updates) /\ updates[id].kind = "stocks"

C27_UpdatesMutuallyExclusive ==
    /\ [](/\ \A id, other \in 1..MaxUpdates :
                (InProgress(id) /\ InProgress(other)) => id = other
          /\ isUpdating <=> \E id \in 1..MaxUpdates : InProgress(id)
          /\ \A id \in 1..MaxUpdates : InProgress(id) => updates[id].cachedData = cacheFile)
    /\ [][(isUpdating /\ Len(updates') > Len(updates))
             => /\ \A id \in (Len(updates) + 1)..Len(updates') : updates'[id].stage = "skipped"
                /\ \A id \in 1..Len(updates) : updates'[id] = updates[id]
                /\ cacheFile' = cacheFile
                /\ isUpdating']_vars

\* After a finished update, a timer or admin call arrived while the next update was
\* in progress and was skipped
C27_Witness ==
    /\ Len(updates) >= 3
    /\ updates[1].stage = "done"
    /\ InProgress(2)
    /\ updates[2].kind # updates[1].kind
    /\ updates[3].stage = "skipped"
    /\ cacheFile # DefaultData

\* The running timers that call the update of this kind
ActiveTimers(kind) == {index \in 1..Len(updateIntervals) : updateIntervals[index] = kind}

\* C28: at most one periodic stock timer and at most one periodic news timer are
\* active at any time
C28_OneTimerPerKind ==
    /\ Cardinality(ActiveTimers("stocks")) <= 1
    /\ Cardinality(ActiveTimers("news")) <= 1

-----------------------------------------------------------------------------
(* Properties of the usage tracker *)

\* The step calls getUsageStats() (the gemini-usage route, or logUsageStats() after a
\* model call)
ReadsUsage == usageResponse' # usageResponse \/ \E n \in DOMAIN calls : Resumes(n)

\* The step calls trackApiCall()
CountsCall == modelInvocations' = modelInvocations + 1

\* C11: the first getUsageStats() or trackApiCall() on a Pacific date other than
\* lastResetDate sets todaysCalls to 0 before it counts the new call and sets
\* lastResetDate to that date; on the date of lastResetDate nothing resets todaysCalls
\* again; and totalCalls never decreases
C11_DailyResetOncePerDay ==
    [][LET todayPacific == PacificDate(clock) IN
       /\ usageStats'.totalCalls >= usageStats.totalCalls
       /\ (ReadsUsage \/ CountsCall) => usageStats'.lastResetDate = todayPacific
       /\ (ReadsUsage /\ usageStats.lastResetDate # todayPacific)
              => usageStats'.todaysCalls = 0
       /\ (CountsCall /\ usageStats.lastResetDate # todayPacific)
              => usageStats'.todaysCalls = 1
       /\ usageStats.lastResetDate = todayPacific
              => /\ usageStats'.lastResetDate = usageStats.lastResetDate
                 /\ usageStats'.todaysCalls >= usageStats.todaysCalls
       /\ usageStats'.lastResetDate # usageStats.lastResetDate
              => usageStats'.totalCalls - usageStats.totalCalls = usageStats'.todaysCalls
      ]_vars

\* A call was counted on one Pacific date, the gemini-usage route read the counters on
\* the next date and showed todaysCalls 0, and a second call was then counted as the
\* first of that date
C11_Witness ==
    /\ usageStats.totalCalls = 2
    /\ usageStats.todaysCalls = 1
    /\ usageStats.lastResetDate = PacificDate(StartTime) + 1
    /\ usageResponse.status = 200
    /\ usageResponse.usage.usage.todaysCalls = 0
    /\ usageResponse.usage.usage.totalCalls = 1
    /\ usageResponse.usage.usage.lastResetDate = PacificDate(StartTime) + 1


\* The step is a GET of the gemini-usage route
UsageServed == usageResponse' # usageResponse

\* C15 as stated: a GET of the gemini-usage route leaves every field of the usage
\* tracker and both sentiment caches as they were
C15_UsageGetReadOnly ==
    [][UsageServed => /\ usageStats' = usageStats
                      /\ sentimentCache' = sentimentCache
                      /\ individualArticleCache' = individualArticleCache]_vars

\* C15: a GET of the gemini-usage route leaves both sentiment caches and every field of
\* the usage tracker other than todaysCalls and lastResetDate as they were; it leaves
\* these two as well when lastResetDate is the current Pacific date, and otherwise sets
\* todaysCalls to 0 and lastResetDate to that date
C15_UsageGetOnlyResetsDay ==
    [][UsageServed =>
          LET todayPacific == PacificDate(clock) IN
          /\ sentimentCache' = sentimentCache
          /\ individualArticleCache' = individualArticleCache
          /\ usageStats' = [usageStats EXCEPT
                               !.todaysCalls = IF usageStats.lastResetDate = todayPacific
                                               THEN @ ELSE 0,
                               !.lastResetDate = todayPacific]
          /\ usageResponse'.usage.usage = usageStats'
          /\ usageResponse'.articleCacheSize = Cardinality(DOMAIN individualArticleCache)
          /\ usageResponse'.bulkCacheSize = Cardinality(DOMAIN sentimentCache)]_vars

\* The route answered on the Pacific date after the one on which the only call was
\* counted, with an entry in each cache
C15_Witness ==
    /\ usageResponse.status = 200
    /\ usageResponse.timestamp = clock
    /\ usageStats.totalCalls = 1
    /\ usageStats.todaysCalls = 0
    /\ usageStats.lastResetDate = PacificDate(StartTime) + 1
    /\ usageResponse.usage.usage = usageStats
    /\ usageResponse.articleCacheSize > 0
    /\ usageResponse.bulkCacheSize > 0

\* C30: todaysCalls <= totalCalls; quotaErrors + rateLimitErrors <= failedCalls;
\* totalCalls is the number of model invocations started; and no counter other than
\* todaysCalls ever decreases
C30_CountersConsistent ==
    /\ [](/\ usageStats.todaysCalls <= usageStats.totalCalls
          /\ usageStats.quotaErrors + usageStats.rateLimitErrors <= usageStats.failedCalls
          /\ usageStats.totalCalls = modelInvocations)
    /\ [][/\ usageStats'.totalCalls >= usageStats.totalCalls
          /\ usageStats'.successfulCalls >= usageStats.successfulCalls
          /\ usageStats'.failedCalls >= usageStats.failedCalls
          /\ usageStats'.quotaErrors >= usageStats.quotaErrors
          /\ usageStats'.rateLimitErrors >= usageStats.rateLimitErrors
          /\ usageStats'.estimatedTokensUsed >= usageStats.estimatedTokensUsed
          /\ usageStats'.lastCallTime >= usageStats.lastCallTime]_vars

\* Two model calls on two Pacific days, the first failed with a 429 whose message says
\* 'Too Many Requests' and counted once as a quota error, the second still awaited
\* while the route served the statistics
C30_Witness ==
    /\ usageStats.totalCalls = 2
    /\ usageStats.todaysCalls = 1
    /\ usageStats.failedCalls = 1
    /\ usageStats.quotaErrors = 1
    /\ usageStats.rateLimitErrors = 0
    /\ modelInvocations = 2
    /\ DOMAIN calls = {2}
    /\ usageResponse.status = 200
    /\ usageResponse.usage.usage.totalCalls = 2

-----------------------------------------------------------------------------
(* Properties of calculateOverallSentiment *)

RECURSIVE SumOver(_, _)
\* The sum of f over a finite set of indices
SumOver(f, indices) ==
    IF indices = {} THEN 0
    ELSE LET i == CHOOSE i \in indices : TRUE IN f[i] + SumOver(f, indices \ {i})

\* The summed confidence of the rated articles of the list with the label
ConfidenceSum(sentiments, label) ==
    SumOver([i \in 1..Len(sentiments) |-> sentiments[i].confidence],
            {i \in 1..Len(sentiments) :
                sentiments[i] # Undefined /\ sentiments[i].sentiment = label})

\* C12: the overall sentiment is 'positive' exactly when the summed confidence of the
\* positive articles is strictly greater than both other sums, 'negative' exactly when
\* the negative sum is strictly greater than both others, and 'neutral' otherwise,
\* ties for the highest sum included
C12_StrictlyHighestSumWins ==
    pureResult # <<>> =>
        LET overall == pureResult[1].overallSentiment
            positive == ConfidenceSum(pureArgs, "positive")
            negative == ConfidenceSum(pureArgs, "negative")
            neutral == ConfidenceSum(pureArgs, "neutral")
        IN  /\ overall = "positive" <=> (positive > negative /\ positive > neutral)
            /\ overall = "negative" <=> (negative > positive /\ negative > neutral)
            /\ overall = "neutral" <=> ~(positive > negative /\ positive > neutral)
                                        /\ ~(negative > positive /\ negative > neutral)

\* Two positive articles of confidence 0.3 against one negative article of confidence
\* 1: negative wins by sum although positive has more articles
C12_Witness ==
    /\ pureResult # <<>>
    /\ Len(pureArgs) = 3
    /\ ConfidenceSum(pureArgs, "positive") = 60
    /\ ConfidenceSum(pureArgs, "negative") = 100
    /\ pureResult[1].breakdown.positive = 2
    /\ pureResult[1].overallSentiment = "negative"

\* C13: calculateOverallSentiment returns a defined confidence between 0 and 0.95 for
\* every list of articles with confidences in [0, 1], lists whose confidences are all 0
\* included, and neutral with confidence 0 for an empty or entirely unrated list
C13_ConfidenceDefinedInRange ==
    pureResult # <<>> =>
        LET overall == pureResult[1]
            rated == SelectSeq(pureArgs, Truthy)
        IN  /\ ~overall.confidence.nan
            /\ overall.confidence.den > 0
            /\ 0 <= overall.confidence.num
            /\ 100 * overall.confidence.num <= 95 * overall.confidence.den
            /\ rated = <<>> => /\ overall.overallSentiment = "neutral"
                               /\ overall.confidence.num = 0


\* The qualitative phrase that ends the summary
SummaryPhrase(overall) == overall.summary[Len(overall.summary)]

\* C21: for a list with a rated article, the phrase of the summary is 'Bullish
\* indicators dominate.' exactly when the returned overallSentiment is positive,
\* 'Bearish concerns present.' exactly when it is negative and 'Mixed signals in the
\* market.' exactly when it is neutral
C21_PhraseTiedToWinner ==
    (pureResult # <<>> /\ SelectSeq(pureArgs, Truthy) # <<>>) =>
        LET overall == pureResult[1] IN
        /\ SummaryPhrase(overall) = "Bullish indicators dominate."
               <=> overall.overallSentiment = "positive"
        /\ SummaryPhrase(overall) = "Bearish concerns present."
               <=> overall.overallSentiment = "negative"
        /\ SummaryPhrase(overall) = "Mixed signals in the market."
               <=> overall.overallSentiment = "neutral"

-----------------------------------------------------------------------------
(* Properties of generateContentHash *)

-----------------------------------------------------------------------------
(* Properties of the limiters across a window boundary *)

\* The key of the recorded checks, its limiter's maximum and window
BurstKey == IF rlRoute = "news" THEN "ip1" ELSE AnalysisKey("ip1")
BurstMax == IF rlRoute = "news" THEN RATE_LIMIT_MAX_REQUESTS ELSE ANALYSIS_RATE_LIMIT_MAX_REQUESTS
BurstWindow == IF rlRoute = "news" THEN RATE_LIMIT_WINDOW ELSE ANALYSIS_RATE_LIMIT_WINDOW

\* The checks made, and the checks allowed, at the instants from..to
MadeIn(from, to) ==
    SumOver([t \in DOMAIN rlChecks |-> rlChecks[t].made],
            {t \in DOMAIN rlChecks : from <= t /\ t <= to})

AllowedIn(from, to) ==
    SumOver([t \in DOMAIN rlChecks |-> rlChecks[t].allowed],
            {t \in DOMAIN rlChecks : from <= t /\ t <= to})

\* The instant at which the current window of the key was opened by a check
WindowOpenedAt ==
    IF <<rlRoute, BurstKey>> \in DOMAIN rlWindow
    THEN rlWindow[<<rlRoute, BurstKey>>].end - BurstWindow
    ELSE 0

\* C20 as stated: no interval of length at most W holds more than 2*M allowed checks,
\* and 2*M is reached by M checks just before a window's reset time and M more just
\* after it: whenever an interval of length at most W holds at least M checks made
\* before the current window opened and at least M checks made since, it holds 2*M
\* allowed checks
C20_TwiceMaxAcrossReset ==
    \A from, to \in DOMAIN rlChecks :
        (from <= to /\ to - from <= BurstWindow)
            => /\ AllowedIn(from, to) <= 2 * BurstMax
               /\ (/\ from < WindowOpenedAt
                   /\ WindowOpenedAt <= to
                   /\ MadeIn(from, WindowOpenedAt - 1) >= BurstMax
                   /\ MadeIn(WindowOpenedAt, to) >= BurstMax)
                      => AllowedIn(from, to) = 2 * BurstMax

\* C20: no interval of length at most W holds more than 2*M - 1 allowed checks of one
\* key: the check that opened the earlier window is more than W before every check of
\* the later one
C20_LessThanTwiceMax ==
    \A from, to \in DOMAIN rlChecks :
        (from <= to /\ to - from <= BurstWindow)
            => AllowedIn(from, to) <= 2 * BurstMax - 1

\* M - 1 checks allowed at the reset time of a window and M more 1 ms later
C20_Witness ==
    \E from \in DOMAIN rlChecks :
        /\ from + 1 \in DOMAIN rlChecks
        /\ from + 1 = WindowOpenedAt
        /\ rlChecks[from].allowed = BurstMax - 1
        /\ rlChecks[from + 1].allowed = BurstMax
        /\ AllowedIn(from, from + 1) = 2 * BurstMax - 1

=============================================================================
